---- MODULE Spec2Model ----
(***************************************************************************)
(* Iris File Extension (IFE): the serialization engine of                  *)
(* src/src/IrisCodecExtension.cpp over one byte-addressable region.        *)
(*                                                                         *)
(* The region is a function from byte address to byte.  TLC's integers are *)
(* 32 bit wide, so a byte holds a digit of radix ByteRadix instead of 256; *)
(* every field keeps its width in bytes (u16 = 2 bytes ... u64 = 8 bytes), *)
(* its position, its little-endian order and its wrap-around (% U32_MOD).  *)
(* All limits of the format are derived from the radix the way the source  *)
(* derives them from 256: NULL_OFFSET is the largest u64, NULL_TILE the    *)
(* largest u40, UINT24_MAX the largest u24.                                *)
(***************************************************************************)
EXTENDS Integers, Sequences, FiniteSets, TLC

VARIABLES mem, oob, pre, op, out, steps, log, response

vars == <<mem, oob, pre, op, out, steps, log, response>>

\* ------------------------------------------------------------------ bounds
ByteRadix == 8
RegionSize == 512
MaxSteps == 1

\* ------------------------------------------------------------ type widths
U8_MOD  == ByteRadix
U16_MOD == ByteRadix * ByteRadix
U24_MOD == U16_MOD * ByteRadix
U32_MOD == U16_MOD * U16_MOD
U40_MOD == U32_MOD * ByteRadix
U64_MOD == U32_MOD * U32_MOD

UINT16_MAX == U16_MOD - 1
UINT24_MAX == U24_MOD - 1
UINT32_MAX == U32_MOD - 1
UINT40_MAX == U40_MOD - 1
UINT64_MAX == U64_MOD - 1

HEADER_OFFSET == 0
NULL_OFFSET == UINT64_MAX
NULL_TILE   == UINT40_MAX
NULL_ID     == UINT24_MAX

\* The magic number and the recovery registry, scaled to the radix: the
\* registry keeps its order and its distance from RECOVER_UNDEFINED.
MAGIC_BYTES == U32_MOD - 2 * U24_MOD - 5
RECOVER_UNDEFINED              == 5 * ByteRadix
RECOVER_HEADER                 == RECOVER_UNDEFINED + 1
RECOVER_TILE_TABLE             == RECOVER_UNDEFINED + 2
RECOVER_CIPHER                 == RECOVER_UNDEFINED + 3
RECOVER_METADATA               == RECOVER_UNDEFINED + 4
RECOVER_ATTRIBUTES             == RECOVER_UNDEFINED + 5
RECOVER_LAYER_EXTENTS          == RECOVER_UNDEFINED + 6
RECOVER_TILE_OFFSETS           == RECOVER_UNDEFINED + 7
RECOVER_ATTRIBUTES_SIZES       == RECOVER_UNDEFINED + 8
RECOVER_ATTRIBUTES_BYTES       == RECOVER_UNDEFINED + 9
RECOVER_ASSOCIATED_IMAGES      == RECOVER_UNDEFINED + 10
RECOVER_ASSOCIATED_IMAGE_BYTES == RECOVER_UNDEFINED + 11
RECOVER_ICC_PROFILE            == RECOVER_UNDEFINED + 12
RECOVER_ANNOTATIONS            == RECOVER_UNDEFINED + 13
RECOVER_ANNOTATION_BYTES       == RECOVER_UNDEFINED + 14
RECOVER_ANNOTATION_GROUP_SIZES == RECOVER_UNDEFINED + 15
RECOVER_ANNOTATION_GROUP_BYTES == RECOVER_UNDEFINED + 16

IRIS_EXTENSION_MAJOR == 1
IRIS_EXTENSION_MINOR == 0
IRIS_EXTENSION_1_0 == 1 * U16_MOD
IFE_VERSION == IRIS_EXTENSION_MAJOR * U16_MOD + IRIS_EXTENSION_MINOR

\* ------------------------------------------------------------- byte codec
\* A read outside the region is undefined behaviour: it yields the byte oob,
\* which Init chooses freely.
LOAD_U8(m, a) == IF a \in DOMAIN m THEN m[a] ELSE oob

RECURSIVE LoadLE(_, _, _)
LoadLE(m, a, n) ==
    IF n = 0 THEN 0 ELSE LOAD_U8(m, a) + ByteRadix * LoadLE(m, a + 1, n - 1)

LE_LOAD_U64(m, a) == LoadLE(m, a, 8)
LE_LOAD_U40(m, a) == LoadLE(m, a, 8) % U40_MOD
LE_LOAD_U32(m, a) == LoadLE(m, a, 4)
LE_LOAD_U24(m, a) == LoadLE(m, a, 4) % U24_MOD
LE_LOAD_U16(m, a) == LoadLE(m, a, 2)

LOAD_U64(m, a) == LE_LOAD_U64(m, a)
LOAD_U40(m, a) == LE_LOAD_U40(m, a)
LOAD_U32(m, a) == LE_LOAD_U32(m, a)
LOAD_U24(m, a) == LE_LOAD_U24(m, a)
LOAD_U16(m, a) == LE_LOAD_U16(m, a)
\* A float is held as its IEEE bit pattern; LOAD_F32 bit-casts the u32.
LOAD_F32(m, a) == LE_LOAD_U32(m, a)

\* The n low bytes of v, least significant first.
LEBytes(v, n) == [i \in 1..n |-> (v \div (ByteRadix ^ (i - 1))) % ByteRadix]

\* memcpy(base + a, bytes, Len(bytes))
MemCpy(m, a, bytes) ==
    [i \in (a .. a + Len(bytes) - 1) \cap DOMAIN m |-> bytes[i - a + 1]] @@ m

LE_STORE_U64(m, a, v) == MemCpy(m, a, LEBytes(v % U64_MOD, 8))
LE_STORE_U40(m, a, v) == MemCpy(m, a, LEBytes(v, 5))
LE_STORE_U32(m, a, v) == MemCpy(m, a, LEBytes(v % U32_MOD, 4))
LE_STORE_U24(m, a, v) == MemCpy(m, a, LEBytes(v, 3))
LE_STORE_U16(m, a, v) == MemCpy(m, a, LEBytes(v % U16_MOD, 2))

STORE_U64(m, a, v) == LE_STORE_U64(m, a, v)
STORE_U40(m, a, v) == LE_STORE_U40(m, a, v)
STORE_U32(m, a, v) == LE_STORE_U32(m, a, v)
STORE_U24(m, a, v) == LE_STORE_U24(m, a, v)
STORE_U16(m, a, v) == LE_STORE_U16(m, a, v)
STORE_U8(m, a, v)  == MemCpy(m, a, LEBytes(v % U8_MOD, 1))
STORE_F32(m, a, v) == LE_STORE_U32(m, a, v)

\* The same codec on a big-endian host.  *static_cast<const uintN_t*>(ptr)
\* reads the most significant byte first there, and the object
\* representation memcpy copies from starts with the most significant byte.
RECURSIVE LoadBE(_, _, _)
LoadBE(m, a, n) ==
    IF n = 0 THEN 0
    ELSE LOAD_U8(m, a) * (ByteRadix ^ (n - 1)) + LoadBE(m, a + 1, n - 1)
BEBytes(v, n) == [i \in 1..n |-> (v \div (ByteRadix ^ (n - i))) % ByteRadix]
\* __builtin_bswap16/32/64: the n bytes of v in reverse order.
RECURSIVE BSwap(_, _)
BSwap(v, n) ==
    IF n = 0 THEN 0
    ELSE (v % ByteRadix) * (ByteRadix ^ (n - 1)) + BSwap(v \div ByteRadix, n - 1)

BE_LOAD_U64(m, a) == BSwap(LoadBE(m, a, 8), 8)
BE_LOAD_U40(m, a) == BSwap(LoadBE(m, a, 8), 8) % U40_MOD
BE_LOAD_U32(m, a) == BSwap(LoadBE(m, a, 4), 4)
\* masked with U40_MASK, then narrowed to the uint32_t it returns
BE_LOAD_U24(m, a) == (BSwap(LoadBE(m, a, 4), 4) % U40_MOD) % U32_MOD
BE_LOAD_U16(m, a) == BSwap(LoadBE(m, a, 2), 2)

BE_STORE_U64(m, a, v) == MemCpy(m, a, BEBytes(BSwap(v % U64_MOD, 8), 8))
BE_STORE_U40(m, a, v) ==
    MemCpy(m, a, SubSeq(BEBytes(BSwap(v % U64_MOD, 8), 8), 1, 5))
BE_STORE_U32(m, a, v) == MemCpy(m, a, BEBytes(BSwap(v % U32_MOD, 4), 4))
BE_STORE_U24(m, a, v) ==
    MemCpy(m, a, SubSeq(BEBytes(BSwap(v % U32_MOD, 4), 4), 1, 3))
BE_STORE_U16(m, a, v) == MemCpy(m, a, BEBytes(BSwap(v % U16_MOD, 2), 2))

\* A float is kept as its 32 bits: the top bit is the sign, the rest the
\* magnitude, and the magnitudes above that of infinity (exponent all ones,
\* 8 bits of the 31, mantissa not zero) are the NaNs.
F32_SIGN == U32_MOD \div 2
F32_INF  == F32_SIGN - F32_SIGN \div (2 ^ 8)
F32_NAN(f) == f % F32_SIGN > F32_INF
\* a > b on floats: false when either is a NaN, and -0 equals +0.
F32_GT(a, b) ==
    IF F32_NAN(a) \/ F32_NAN(b) THEN FALSE
    ELSE IF a >= F32_SIGN
    THEN b >= F32_SIGN /\ a % F32_SIGN < b % F32_SIGN
    ELSE IF b >= F32_SIGN THEN a > 0 \/ b % F32_SIGN > 0
    ELSE a > b

\* ---------------------------------------------------------------- results
\* Iris::ResultFlag is a bit set: IRIS_FAILURE and IRIS_WARNING are the masks
\* of the failure half and of the warning half.
IRIS_SUCCESS            == {}
IRIS_VALIDATION_FAILURE == {"VALIDATION_FAILURE"}
IRIS_FAILURE            == {"UNINITIALIZED", "VALIDATION_FAILURE", "FAILURE_BITS"}
IRIS_WARNING_VALIDATION == {"WARNING_VALIDATION"}
IRIS_WARNING            == {"WARNING_VALIDATION", "WARNING_BITS"}

Result(flag, msg) == [flag |-> flag, msg |-> msg]
Success == Result(IRIS_SUCCESS, <<>>)
\* result & MASK
And(result, mask) == (result.flag \cap mask) # {}

\* ----------------------------------------------------------------- layout
\* Field positions inside each block, as the enumerations of
\* IrisCodecExtension.hpp give them (bytes from the start of the block).
FILE_HEADER ==
    [MAGIC_BYTES_OFFSET |-> 0, RECOVERY |-> 4, FILE_SIZE |-> 6,
     EXTENSION_MAJOR |-> 14, EXTENSION_MINOR |-> 16, FILE_REVISION |-> 18,
     TILE_TABLE_OFFSET |-> 22, METADATA_OFFSET |-> 30, HEADER_SIZE |-> 38]
DATA_BLOCK == [VALIDATION |-> 0, RECOVERY |-> 8, HEADER_SIZE |-> 10]
TILE_TABLE ==
    [VALIDATION |-> 0, RECOVERY |-> 8, ENCODING |-> 10, FORMAT |-> 11,
     CIPHER_OFFSET |-> 12, TILE_OFFSETS_OFFSET |-> 20,
     LAYER_EXTENTS_OFFSET |-> 28, X_EXTENT |-> 36, Y_EXTENT |-> 40,
     HEADER_SIZE |-> 44]
LAYER_EXTENT == [X_TILES |-> 0, Y_TILES |-> 4, SCALE |-> 8, SIZE |-> 12]
LAYER_EXTENTS ==
    [VALIDATION |-> 0, RECOVERY |-> 8, ENTRY_SIZE |-> 10, ENTRY_NUMBER |-> 12,
     HEADER_SIZE |-> 16]
TILE_OFFSET == [OFFSET |-> 0, TILE_SIZE |-> 5, SIZE |-> 8]
TILE_OFFSETS ==
    [VALIDATION |-> 0, RECOVERY |-> 8, ENTRY_SIZE |-> 10, ENTRY_NUMBER |-> 12,
     HEADER_SIZE |-> 16]
METADATA ==
    [VALIDATION |-> 0, RECOVERY |-> 8, CODEC_MAJOR |-> 10, CODEC_MINOR |-> 12,
     CODEC_BUILD |-> 14, ATTRIBUTES_OFFSET |-> 16, IMAGES_OFFSET |-> 24,
     ICC_COLOR_OFFSET |-> 32, ANNOTATIONS_OFFSET |-> 40, MICRONS_PIXEL |-> 48,
     MAGNIFICATION |-> 52, HEADER_SIZE |-> 56]

ATTRIBUTES ==
    [VALIDATION |-> 0, RECOVERY |-> 8, FORMAT |-> 10, VERSION |-> 11,
     LENGTHS_OFFSET |-> 13, BYTE_ARRAY_OFFSET |-> 21, HEADER_SIZE |-> 29]
ATTRIBUTE_SIZE == [KEY_SIZE |-> 0, VALUE_SIZE |-> 2, SIZE |-> 6]
ATTRIBUTES_SIZES ==
    [VALIDATION |-> 0, RECOVERY |-> 8, ENTRY_SIZE |-> 10, ENTRY_NUMBER |-> 12,
     HEADER_SIZE |-> 16]
ATTRIBUTES_BYTES ==
    [VALIDATION |-> 0, RECOVERY |-> 8, ENTRY_NUMBER |-> 10, HEADER_SIZE |-> 14]
IMAGE_ENTRY ==
    [BYTES_OFFSET |-> 0, WIDTH |-> 8, HEIGHT |-> 12, ENCODING |-> 16,
     FORMAT |-> 17, ORIENTATION |-> 18, SIZE |-> 20]
IMAGE_ARRAY ==
    [VALIDATION |-> 0, RECOVERY |-> 8, ENTRY_SIZE |-> 10, ENTRY_NUMBER |-> 12,
     HEADER_SIZE |-> 16]
IMAGE_BYTES ==
    [VALIDATION |-> 0, RECOVERY |-> 8, TITLE_SIZE |-> 10, IMAGE_SIZE |-> 12,
     HEADER_SIZE |-> 16]
ICC_PROFILE ==
    [VALIDATION |-> 0, RECOVERY |-> 8, ENTRY_NUMBER |-> 10, HEADER_SIZE |-> 14]
ANNOTATION_ENTRY ==
    [IDENTIFIER |-> 0, BYTES_OFFSET |-> 3, FORMAT |-> 11, X_LOCATION |-> 12,
     Y_LOCATION |-> 16, X_SIZE |-> 20, Y_SIZE |-> 24, WIDTH |-> 28,
     HEIGHT |-> 32, PARENT |-> 36, SIZE |-> 39]
ANNOTATIONS ==
    [VALIDATION |-> 0, RECOVERY |-> 8, ENTRY_SIZE |-> 10, ENTRY_NUMBER |-> 12,
     GROUP_SIZES_OFFSET |-> 16, GROUP_BYTES_OFFSET |-> 24, HEADER_SIZE |-> 32]
ANNOTATION_BYTES ==
    [VALIDATION |-> 0, RECOVERY |-> 8, ENTRY_NUMBER |-> 10, HEADER_SIZE |-> 14]
ANNOTATION_GROUP_SIZE == [LABEL_SIZE |-> 0, ENTRIES_NUMBER |-> 2, SIZE |-> 6]
ANNOTATION_GROUP_SIZES ==
    [VALIDATION |-> 0, RECOVERY |-> 8, ENTRY_SIZE |-> 10, ENTRY_NUMBER |-> 12,
     HEADER_SIZE |-> 16]
ANNOTATION_GROUP_BYTES ==
    [VALIDATION |-> 0, RECOVERY |-> 8, ENTRY_NUMBER |-> 10, HEADER_SIZE |-> 14]

\* ------------------------------------------------------------ enumerators
\* The enumerations of the Iris core types: on disk each is a u8 whose
\* value 0 is the undefined enumerator.
Encoding ==
    [TILE_ENCODING_UNDEFINED |-> 0,
     TILE_ENCODING_IRIS |-> 1,
     TILE_ENCODING_JPEG |-> 2,
     TILE_ENCODING_AVIF |-> 3]
Format ==
    [FORMAT_UNDEFINED |-> 0,
     FORMAT_B8G8R8 |-> 1,
     FORMAT_R8G8B8 |-> 2,
     FORMAT_B8G8R8A8 |-> 3,
     FORMAT_R8G8B8A8 |-> 4]
MetadataType ==
    [METADATA_UNDEFINED |-> 0,
     METADATA_I2S |-> 1,
     METADATA_DICOM |-> 2]
ImageEncoding ==
    [IMAGE_ENCODING_UNDEFINED |-> 0,
     IMAGE_ENCODING_PNG |-> 1,
     IMAGE_ENCODING_JPEG |-> 2,
     IMAGE_ENCODING_AVIF |-> 3]
AnnotationTypes ==
    [ANNOTATION_UNDEFINED |-> 0,
     ANNOTATION_PNG |-> 1,
     ANNOTATION_JPEG |-> 2,
     ANNOTATION_SVG |-> 3,
     ANNOTATION_TEXT |-> 4]

\* The version parameter of the VALIDATE_ functions selects nothing in
\* extension 1.0: both of its branches return false.
VALIDATE_ENCODING_TYPE(encoding) ==
    encoding \in {Encoding.TILE_ENCODING_IRIS, Encoding.TILE_ENCODING_JPEG,
                  Encoding.TILE_ENCODING_AVIF}
VALIDATE_PIXEL_FORMAT(format) ==
    format \in {Format.FORMAT_B8G8R8, Format.FORMAT_R8G8B8,
                Format.FORMAT_B8G8R8A8, Format.FORMAT_R8G8B8A8}
VALIDATE_METADATA_TYPE(type) ==
    type \in {MetadataType.METADATA_I2S, MetadataType.METADATA_DICOM}
VALIDATE_IMAGE_ENCODING_TYPE(encoding) ==
    encoding \in {ImageEncoding.IMAGE_ENCODING_PNG,
                  ImageEncoding.IMAGE_ENCODING_JPEG,
                  ImageEncoding.IMAGE_ENCODING_AVIF}
VALIDATE_ANNOTATION_TYPE(type) ==
    type \in {AnnotationTypes.ANNOTATION_PNG, AnnotationTypes.ANNOTATION_JPEG,
              AnnotationTypes.ANNOTATION_SVG, AnnotationTypes.ANNOTATION_TEXT}

\* ------------------------------------------------------------- DATA_BLOCK
\* DATA_BLOCK::operator bool
DATA_BLOCK_bool(offset, size) == offset # NULL_OFFSET /\ offset < size

\* A validate_offset that checks the self-offset and never the recovery tag.
DATA_BLOCK_validate_offset_untagged(m, offset, size, type, recovery) ==
    IF ~DATA_BLOCK_bool(offset, size)
    THEN Result(IRIS_VALIDATION_FAILURE, <<type, "invalid offset">>)
    ELSE IF LOAD_U64(m, offset + DATA_BLOCK.VALIDATION) # offset
    THEN Result(IRIS_VALIDATION_FAILURE, <<type, "offset validation">>)
    ELSE Success

DATA_BLOCK_validate_offset(m, offset, size, type, recovery) ==
    IF ~DATA_BLOCK_bool(offset, size)
    THEN Result(IRIS_VALIDATION_FAILURE, <<type, "invalid offset">>)
    ELSE IF LOAD_U64(m, offset + DATA_BLOCK.VALIDATION) # offset
    THEN Result(IRIS_VALIDATION_FAILURE, <<type, "offset validation">>)
    ELSE IF LOAD_U16(m, offset + DATA_BLOCK.RECOVERY) # recovery
    THEN Result(IRIS_VALIDATION_FAILURE, <<type, "recovery tag">>)
    ELSE Success

\* ---------------------------------------------------------- LAYER_EXTENTS
LAYER_EXTENTS_validate_offset(m, offset, size) ==
    DATA_BLOCK_validate_offset(m, offset, size, "LAYER_EXTENTS",
                               RECOVER_LAYER_EXTENTS)

\* ENTRIES*STEP is a product of a uint32_t and a promoted uint16_t: it wraps.
ArrayBytes(ENTRIES, STEP) == (ENTRIES * STEP) % U32_MOD

\* The scale the loop compares entry LI with: 0.f, then the entry before.
PriorScale(m, start, STEP, LI) ==
    IF LI = 0 THEN 0
    ELSE LOAD_F32(m, start + (LI - 1) * STEP + LAYER_EXTENT.SCALE)

\* A validate_full whose scale test lets a layer repeat the prior scale.
LAYER_EXTENTS_validate_full_nonstrict(m, offset, size) ==
    LET result  == LAYER_EXTENTS_validate_offset(m, offset, size)
        STEP    == LOAD_U16(m, offset + LAYER_EXTENTS.ENTRY_SIZE)
        ENTRIES == LOAD_U32(m, offset + LAYER_EXTENTS.ENTRY_NUMBER)
        start   == offset + LAYER_EXTENTS.HEADER_SIZE
        Bad(LI) ==
            LET array == start + LI * STEP IN
            \/ LOAD_U32(m, array + LAYER_EXTENT.X_TILES) < 1
            \/ LOAD_U32(m, array + LAYER_EXTENT.Y_TILES) < 1
            \/ F32_GT(PriorScale(m, start, STEP, LI),
                      LOAD_F32(m, array + LAYER_EXTENT.SCALE))
        Failed == {LI \in 0..(ENTRIES - 1) : Bad(LI)}
    IN  IF result.flag # IRIS_SUCCESS THEN result
        ELSE IF start + ArrayBytes(ENTRIES, STEP) > size
        THEN Result(IRIS_FAILURE, <<"LAYER_EXTENTS", "out of bounds">>)
        ELSE IF Failed # {}
        THEN Result(IRIS_FAILURE, <<"LAYER_EXTENTS", "entry",
                        CHOOSE LI \in Failed : \A LJ \in Failed : LI <= LJ>>)
        ELSE Success

\* The failure of an entry names the index LI of the first entry that fails
\* ("LAYER_EXTENTS [LI] failed validation").
LAYER_EXTENTS_validate_full(m, offset, size) ==
    LET result  == LAYER_EXTENTS_validate_offset(m, offset, size)
        STEP    == LOAD_U16(m, offset + LAYER_EXTENTS.ENTRY_SIZE)
        ENTRIES == LOAD_U32(m, offset + LAYER_EXTENTS.ENTRY_NUMBER)
        start   == offset + LAYER_EXTENTS.HEADER_SIZE
        Bad(LI) ==
            LET array == start + LI * STEP IN
            \/ LOAD_U32(m, array + LAYER_EXTENT.X_TILES) < 1
            \/ LOAD_U32(m, array + LAYER_EXTENT.Y_TILES) < 1
            \/ ~F32_GT(LOAD_F32(m, array + LAYER_EXTENT.SCALE),
                       PriorScale(m, start, STEP, LI))
        Failed == {LI \in 0..(ENTRIES - 1) : Bad(LI)}
    IN  IF result.flag # IRIS_SUCCESS THEN result
        ELSE IF start + ArrayBytes(ENTRIES, STEP) > size
        THEN Result(IRIS_FAILURE, <<"LAYER_EXTENTS", "out of bounds">>)
        ELSE IF Failed # {}
        THEN Result(IRIS_FAILURE, <<"LAYER_EXTENTS", "entry",
                        CHOOSE LI \in Failed : \A LJ \in Failed : LI <= LJ>>)
        ELSE Success

\* A read either returns a value or raises (throw std::runtime_error).
Returned(value) == [raised |-> FALSE, value |-> value]
Raised(msg) == [raised |-> TRUE, value |-> msg]

\* extents.back() on an empty vector is undefined behaviour; the downsample
\* it feeds is not modelled, so the empty vector is returned as it is.
LAYER_EXTENTS_read_layer_extents(m, offset, size) ==
    LET STEP    == LOAD_U16(m, offset + LAYER_EXTENTS.ENTRY_SIZE)
        ENTRIES == LOAD_U32(m, offset + LAYER_EXTENTS.ENTRY_NUMBER)
        start   == offset + LAYER_EXTENTS.HEADER_SIZE
    IN  IF start + ArrayBytes(ENTRIES, STEP) > size
        THEN Raised(<<"LAYER_EXTENTS", "out of bounds">>)
        ELSE Returned([LI \in 1..ENTRIES |->
                LET array == start + (LI - 1) * STEP IN
                [xTiles |-> LOAD_U32(m, array + LAYER_EXTENT.X_TILES),
                 yTiles |-> LOAD_U32(m, array + LAYER_EXTENT.Y_TILES),
                 scale  |-> LOAD_F32(m, array + LAYER_EXTENT.SCALE)]])

\* ----------------------------------------------------------- TILE_OFFSETS
TILE_OFFSETS_validate_offset(m, offset, size) ==
    DATA_BLOCK_validate_offset(m, offset, size, "TILE_OFFSETS",
                               RECOVER_TILE_OFFSETS)

TILE_OFFSETS_validate_full(m, offset, size) ==
    LET result  == TILE_OFFSETS_validate_offset(m, offset, size)
        STEP    == LOAD_U16(m, offset + TILE_OFFSETS.ENTRY_SIZE)
        ENTRIES == LOAD_U32(m, offset + TILE_OFFSETS.ENTRY_NUMBER)
        start   == offset + TILE_OFFSETS.HEADER_SIZE
        Bad(TI) ==
            LET array == start + TI * STEP IN
            LOAD_U40(m, array + TILE_OFFSET.OFFSET)
                + LOAD_U24(m, array + TILE_OFFSET.TILE_SIZE) > size
    IN  IF And(result, IRIS_FAILURE) THEN result
        ELSE IF start + ArrayBytes(ENTRIES, STEP) > size
        THEN Result(IRIS_FAILURE, <<"TILE_OFFSETS", "out of bounds">>)
        ELSE IF \E TI \in 0..(ENTRIES - 1) : Bad(TI)
        THEN Result(IRIS_FAILURE, <<"TILE_OFFSETS", "tile out of bounds">>)
        ELSE Success

\* layer.xTiles * layer.yTiles: a product of two uint32_t.
LayerTiles(extent) == (extent.xTiles * extent.yTiles) % U32_MOD

\* The tiles of the first n layers, as the array pointer counts them.
RECURSIVE TilesBefore(_, _)
TilesBefore(extents, n) ==
    IF n = 0 THEN 0 ELSE TilesBefore(extents, n - 1) + LayerTiles(extents[n])

\* A tile entry loaded without the NULL_TILE normalization.
ReadTileEntry_raw(m, array) ==
    [offset |-> LOAD_U40(m, array + TILE_OFFSET.OFFSET),
     size   |-> LOAD_U24(m, array + TILE_OFFSET.TILE_SIZE)]

\* One tile entry as read_tile_offsets loads it.
ReadTileEntry(m, array) ==
    LET offset == LOAD_U40(m, array + TILE_OFFSET.OFFSET)
        tsize  == LOAD_U24(m, array + TILE_OFFSET.TILE_SIZE)
    IN  IF offset = NULL_TILE
        THEN [offset |-> NULL_OFFSET, size |-> 0]
        ELSE [offset |-> offset, size |-> tsize]

\* read_tile_offsets fills table.layers from table.extent.layers (extents).
TILE_OFFSETS_read_tile_offsets(m, offset, size, extents) ==
    LET STEP    == LOAD_U16(m, offset + TILE_OFFSETS.ENTRY_SIZE)
        ENTRIES == LOAD_U32(m, offset + TILE_OFFSETS.ENTRY_NUMBER)
        total_tiles == TilesBefore(extents, Len(extents)) % U32_MOD
        start   == offset + TILE_OFFSETS.HEADER_SIZE
        Entry(LI, TI) ==
            start + (TilesBefore(extents, LI - 1) + TI - 1) * STEP
        layers ==
            [LI \in 1..Len(extents) |->
                [TI \in 1..LayerTiles(extents[LI]) |->
                    ReadTileEntry(m, Entry(LI, TI))]]
        OutOfFile(LI, TI) ==
            LET array == Entry(LI, TI)
                o == LOAD_U40(m, array + TILE_OFFSET.OFFSET)
                s == LOAD_U24(m, array + TILE_OFFSET.TILE_SIZE)
            IN  o # NULL_TILE /\ o + s > size
    IN  IF total_tiles # ENTRIES
        THEN Raised(<<"TILE_OFFSETS", "tile number mismatch">>)
        ELSE IF start + ArrayBytes(ENTRIES, STEP) > size
        THEN Raised(<<"TILE_OFFSETS", "out of bounds">>)
        ELSE IF \E LI \in 1..Len(extents) :
                    \E TI \in 1..LayerTiles(extents[LI]) : OutOfFile(LI, TI)
        THEN Raised(<<"TILE_OFFSETS", "tile out of bounds">>)
        ELSE Returned(layers)

\* ------------------------------------------------------------- TILE_TABLE
TILE_TABLE_validate_offset(m, offset, size) ==
    DATA_BLOCK_validate_offset(m, offset, size, "TILE_TABLE",
                               RECOVER_TILE_TABLE)

TILE_TABLE_validate_full(m, offset, size) ==
    LET result  == TILE_TABLE_validate_offset(m, offset, size)
        extents == LAYER_EXTENTS_validate_full(m,
                       LOAD_U64(m, offset + TILE_TABLE.LAYER_EXTENTS_OFFSET),
                       size)
        tiles   == TILE_OFFSETS_validate_full(m,
                       LOAD_U64(m, offset + TILE_TABLE.TILE_OFFSETS_OFFSET),
                       size)
    IN  IF And(result, IRIS_FAILURE) THEN result
        ELSE IF ~VALIDATE_ENCODING_TYPE(LOAD_U8(m, offset + TILE_TABLE.ENCODING))
        THEN Result(IRIS_VALIDATION_FAILURE, <<"TILE_TABLE", "encoding">>)
        ELSE IF ~VALIDATE_PIXEL_FORMAT(LOAD_U8(m, offset + TILE_TABLE.FORMAT))
        THEN Result(IRIS_VALIDATION_FAILURE, <<"TILE_TABLE", "format">>)
        ELSE IF And(extents, IRIS_VALIDATION_FAILURE) THEN extents
        ELSE IF And(tiles, IRIS_VALIDATION_FAILURE) THEN tiles
        ELSE Success

\* get_layer_extents / get_tile_offsets: the child reader, or a raise when
\* the child's validate_offset fails.
TILE_TABLE_get_layer_extents(m, offset, size) ==
    LET child  == LOAD_U64(m, offset + TILE_TABLE.LAYER_EXTENTS_OFFSET)
        result == LAYER_EXTENTS_validate_offset(m, child, size)
    IN  IF And(result, IRIS_VALIDATION_FAILURE) THEN Raised(result.msg)
        ELSE Returned(child)

TILE_TABLE_get_tile_offsets(m, offset, size) ==
    LET child  == LOAD_U64(m, offset + TILE_TABLE.TILE_OFFSETS_OFFSET)
        result == TILE_OFFSETS_validate_offset(m, child, size)
    IN  IF And(result, IRIS_VALIDATION_FAILURE) THEN Raised(result.msg)
        ELSE Returned(child)

TILE_TABLE_read_tile_table(m, offset, size) ==
    LET encoding == LOAD_U8(m, offset + TILE_TABLE.ENCODING)
        format   == LOAD_U8(m, offset + TILE_TABLE.FORMAT)
        EXTENTS  == TILE_TABLE_get_layer_extents(m, offset, size)
        layers   == LAYER_EXTENTS_read_layer_extents(m, EXTENTS.value, size)
        OFFSETS  == TILE_TABLE_get_tile_offsets(m, offset, size)
        tiles    == TILE_OFFSETS_read_tile_offsets(m, OFFSETS.value, size,
                                                   layers.value)
    IN  IF ~VALIDATE_ENCODING_TYPE(encoding)
        THEN Raised(<<"TILE_TABLE", "encoding">>)
        ELSE IF ~VALIDATE_PIXEL_FORMAT(format)
        THEN Raised(<<"TILE_TABLE", "format">>)
        ELSE IF EXTENTS.raised THEN EXTENTS
        ELSE IF layers.raised THEN layers
        ELSE IF OFFSETS.raised THEN OFFSETS
        ELSE IF tiles.raised THEN tiles
        ELSE Returned(
            [encoding |-> encoding, format |-> format,
             extent |-> [width  |-> LOAD_U32(m, offset + TILE_TABLE.X_EXTENT),
                         height |-> LOAD_U32(m, offset + TILE_TABLE.Y_EXTENT),
                         layers |-> layers.value],
             layers |-> tiles.value])

\* ------------------------------------------------------------- ATTRIBUTES
ATTRIBUTES_validate_offset(m, offset, size) ==
    DATA_BLOCK_validate_offset(m, offset, size, "ATTRIBUTES",
                               RECOVER_ATTRIBUTES)
ATTRIBUTES_SIZES_validate_offset(m, offset, size) ==
    DATA_BLOCK_validate_offset(m, offset, size, "ATTRIBUTES_SIZES",
                               RECOVER_ATTRIBUTES_SIZES)
ATTRIBUTES_BYTES_validate_offset(m, offset, size) ==
    DATA_BLOCK_validate_offset(m, offset, size, "ATTRIBUTES_BYTES",
                               RECOVER_ATTRIBUTES_BYTES)

\* expected_bytes after n entries of the sizes array.
RECURSIVE AttributeBytesExpected(_, _, _, _)
AttributeBytesExpected(m, start, STEP, n) ==
    IF n = 0 THEN 0
    ELSE LET array == start + (n - 1) * STEP IN
         AttributeBytesExpected(m, start, STEP, n - 1)
            + LOAD_U16(m, array + ATTRIBUTE_SIZE.KEY_SIZE)
            + LOAD_U32(m, array + ATTRIBUTE_SIZE.VALUE_SIZE)

\* validate_full(base, expected_bytes&): the result and the out parameter.
ATTRIBUTES_SIZES_validate_full(m, offset, size) ==
    LET result  == ATTRIBUTES_SIZES_validate_offset(m, offset, size)
        STEP    == LOAD_U16(m, offset + ATTRIBUTES_SIZES.ENTRY_SIZE)
        ENTRIES == LOAD_U32(m, offset + ATTRIBUTES_SIZES.ENTRY_NUMBER)
        start   == offset + ATTRIBUTES_SIZES.HEADER_SIZE
    IN  IF And(result, IRIS_FAILURE)
        THEN [result |-> result, expected_bytes |-> 0]
        ELSE IF start + ArrayBytes(ENTRIES, STEP) > size
        THEN [result |-> Result(IRIS_FAILURE,
                                <<"ATTRIBUTES_SIZES", "out of bounds">>),
              expected_bytes |-> 0]
        ELSE [result |-> Success,
              expected_bytes |-> AttributeBytesExpected(m, start, STEP, ENTRIES)]

\* A validate_full that never compares the byte count with the sizes' total.
ATTRIBUTES_BYTES_validate_full_unsummed(m, offset, size, expected) ==
    LET result == ATTRIBUTES_BYTES_validate_offset(m, offset, size)
        BYTES  == LOAD_U32(m, offset + ATTRIBUTES_BYTES.ENTRY_NUMBER)
    IN  IF And(result, IRIS_FAILURE) THEN result
        ELSE IF offset + BYTES > size
        THEN Result(IRIS_FAILURE, <<"ATTRIBUTES_BYTES", "out of bounds">>)
        ELSE Success

ATTRIBUTES_BYTES_validate_full(m, offset, size, expected) ==
    LET result == ATTRIBUTES_BYTES_validate_offset(m, offset, size)
        BYTES  == LOAD_U32(m, offset + ATTRIBUTES_BYTES.ENTRY_NUMBER)
    IN  IF And(result, IRIS_FAILURE) THEN result
        ELSE IF BYTES # expected
        THEN Result(IRIS_FAILURE, <<"ATTRIBUTES_BYTES", "expected bytes">>)
        ELSE IF offset + BYTES > size
        THEN Result(IRIS_FAILURE, <<"ATTRIBUTES_BYTES", "out of bounds">>)
        ELSE Success

ATTRIBUTES_validate_full(m, offset, size) ==
    LET result  == ATTRIBUTES_validate_offset(m, offset, size)
        LENGTHS == ATTRIBUTES_SIZES_validate_full(m,
                       LOAD_U64(m, offset + ATTRIBUTES.LENGTHS_OFFSET), size)
        BYTES   == ATTRIBUTES_BYTES_validate_full(m,
                       LOAD_U64(m, offset + ATTRIBUTES.BYTE_ARRAY_OFFSET), size,
                       LENGTHS.expected_bytes)
    IN  IF And(result, IRIS_FAILURE) THEN result
        ELSE IF ~VALIDATE_METADATA_TYPE(LOAD_U8(m, offset + ATTRIBUTES.FORMAT))
        THEN Result(IRIS_FAILURE, <<"ATTRIBUTES", "format">>)
        ELSE IF And(LENGTHS.result, IRIS_FAILURE) THEN LENGTHS.result
        ELSE BYTES

ATTRIBUTES_get_sizes(m, offset, size) ==
    LET child  == LOAD_U64(m, offset + ATTRIBUTES.LENGTHS_OFFSET)
        result == ATTRIBUTES_SIZES_validate_offset(m, child, size)
    IN  IF And(result, IRIS_FAILURE) THEN Raised(result.msg)
        ELSE Returned(child)
ATTRIBUTES_get_bytes(m, offset, size) ==
    LET child  == LOAD_U64(m, offset + ATTRIBUTES.BYTE_ARRAY_OFFSET)
        result == ATTRIBUTES_BYTES_validate_offset(m, child, size)
    IN  IF And(result, IRIS_FAILURE) THEN Raised(result.msg)
        ELSE Returned(child)

\* The SizeArray: one <<key size, value size>> pair per entry.
ATTRIBUTES_SIZES_read_sizes(m, offset, size) ==
    LET STEP    == LOAD_U16(m, offset + ATTRIBUTES_SIZES.ENTRY_SIZE)
        ENTRIES == LOAD_U32(m, offset + ATTRIBUTES_SIZES.ENTRY_NUMBER)
        start   == offset + ATTRIBUTES_SIZES.HEADER_SIZE
    IN  IF start + ArrayBytes(ENTRIES, STEP) > size
        THEN Raised(<<"ATTRIBUTES_SIZES", "out of bounds">>)
        ELSE Returned([EI \in 1..ENTRIES |->
                LET array == start + (EI - 1) * STEP IN
                <<LOAD_U16(m, array + ATTRIBUTE_SIZE.KEY_SIZE),
                  LOAD_U32(m, array + ATTRIBUTE_SIZE.VALUE_SIZE)>>])

\* total_size after the first n pairs of the size array.
RECURSIVE PairsTotal(_, _)
PairsTotal(sizes, n) ==
    IF n = 0 THEN 0
    ELSE PairsTotal(sizes, n - 1) + sizes[n][1] + sizes[n][2]

\* A read_bytes that takes each value from the start of its pair, where the
\* key is.
ATTRIBUTES_BYTES_read_bytes_unkeyed(m, offset, size, sizes) ==
    LET BYTES == LOAD_U32(m, offset + ATTRIBUTES_BYTES.ENTRY_NUMBER)
        start == offset + ATTRIBUTES_BYTES.HEADER_SIZE
        Key(EI) ==
            [i \in 1..sizes[EI][1] |->
                LOAD_U8(m, start + PairsTotal(sizes, EI - 1) + i - 1)]
        Value(EI) ==
            [i \in 1..sizes[EI][2] |->
                LOAD_U8(m, start + PairsTotal(sizes, EI - 1) + i - 1)]
        Last(EI) == \A EJ \in (EI + 1)..Len(sizes) : Key(EJ) # Key(EI)
    IN  IF PairsTotal(sizes, Len(sizes)) # BYTES
        THEN Raised(<<"ATTRIBUTES_BYTES", "expected bytes">>)
        ELSE IF start + BYTES > size
        THEN Raised(<<"ATTRIBUTES_BYTES", "out of bounds">>)
        ELSE Returned({[key |-> Key(EI), value |-> Value(EI)] :
                            EI \in {EJ \in 1..Len(sizes) : Last(EJ)}})

\* read_bytes fills the attributes: attributes[key] = value per pair, a later
\* pair replacing an earlier one of the same key.
ATTRIBUTES_BYTES_read_bytes(m, offset, size, sizes) ==
    LET BYTES == LOAD_U32(m, offset + ATTRIBUTES_BYTES.ENTRY_NUMBER)
        start == offset + ATTRIBUTES_BYTES.HEADER_SIZE
        Key(EI) ==
            [i \in 1..sizes[EI][1] |->
                LOAD_U8(m, start + PairsTotal(sizes, EI - 1) + i - 1)]
        Value(EI) ==
            [i \in 1..sizes[EI][2] |->
                LOAD_U8(m, start + PairsTotal(sizes, EI - 1)
                                + sizes[EI][1] + i - 1)]
        Last(EI) == \A EJ \in (EI + 1)..Len(sizes) : Key(EJ) # Key(EI)
    IN  IF PairsTotal(sizes, Len(sizes)) # BYTES
        THEN Raised(<<"ATTRIBUTES_BYTES", "expected bytes">>)
        ELSE IF start + BYTES > size
        THEN Raised(<<"ATTRIBUTES_BYTES", "out of bounds">>)
        ELSE Returned({[key |-> Key(EI), value |-> Value(EI)] :
                            EI \in {EJ \in 1..Len(sizes) : Last(EJ)}})

\* The Attributes read back: type, version and the key/value map.
ATTRIBUTES_read_attributes(m, offset, size) ==
    LET type       == LOAD_U8(m, offset + ATTRIBUTES.FORMAT)
        version    == LOAD_U16(m, offset + ATTRIBUTES.VERSION)
        SIZES      == ATTRIBUTES_get_sizes(m, offset, size)
        size_array == ATTRIBUTES_SIZES_read_sizes(m, SIZES.value, size)
        BYTES      == ATTRIBUTES_get_bytes(m, offset, size)
        map        == ATTRIBUTES_BYTES_read_bytes(m, BYTES.value, size,
                                                  size_array.value)
    IN  IF ~VALIDATE_METADATA_TYPE(type)
        THEN Raised(<<"ATTRIBUTES", "format">>)
        ELSE IF SIZES.raised THEN SIZES
        ELSE IF size_array.raised THEN size_array
        ELSE IF BYTES.raised THEN BYTES
        ELSE IF map.raised THEN map
        ELSE Returned([type |-> type, version |-> version,
                       entries |-> map.value])

\* ------------------------------------------------------------ IMAGE_ARRAY
IMAGE_ARRAY_validate_offset(m, offset, size) ==
    DATA_BLOCK_validate_offset(m, offset, size, "IMAGE_ARRAY",
                               RECOVER_ASSOCIATED_IMAGES)
IMAGE_BYTES_validate_offset(m, offset, size) ==
    DATA_BLOCK_validate_offset(m, offset, size, "IMAGE_BYTES",
                               RECOVER_ASSOCIATED_IMAGE_BYTES)

IMAGE_BYTES_validate_full(m, offset, size) ==
    LET result == IMAGE_BYTES_validate_offset(m, offset, size)
        TITLE  == LOAD_U16(m, offset + IMAGE_BYTES.TITLE_SIZE)
        BYTES  == LOAD_U32(m, offset + IMAGE_BYTES.IMAGE_SIZE)
    IN  IF And(result, IRIS_FAILURE) THEN result
        ELSE IF TITLE = 0 \/ TITLE > UINT16_MAX
        THEN Result(IRIS_VALIDATION_FAILURE, <<"IMAGE_BYTES", "title">>)
        ELSE IF BYTES = 0 \/ BYTES > UINT32_MAX
        THEN Result(IRIS_VALIDATION_FAILURE, <<"IMAGE_BYTES", "image size">>)
        ELSE IF offset + TITLE + BYTES > size
        THEN Result(IRIS_FAILURE, <<"IMAGE_BYTES", "out of bounds">>)
        ELSE Success

\* The loop calls validate_offset and validate_full of every IMAGE_BYTES
\* block and drops both results; the array itself has no bounds check.
\* Each entry's IMAGE_BYTES::validate_offset and validate_full are called
\* and their results dropped; the array's extent is compared with nothing.
IMAGE_ARRAY_validate_full(m, offset, size) ==
    LET result  == IMAGE_ARRAY_validate_offset(m, offset, size)
        STEP    == LOAD_U16(m, offset + IMAGE_ARRAY.ENTRY_SIZE)
        ENTRIES == LOAD_U32(m, offset + IMAGE_ARRAY.ENTRY_NUMBER)
        start   == offset + IMAGE_ARRAY.HEADER_SIZE
        Bad(II) ==
            LET array == start + II * STEP IN
            \/ ~VALIDATE_IMAGE_ENCODING_TYPE(
                    LOAD_U8(m, array + IMAGE_ENTRY.ENCODING))
            \/ ~VALIDATE_PIXEL_FORMAT(LOAD_U8(m, array + IMAGE_ENTRY.FORMAT))
    IN  IF And(result, IRIS_FAILURE) THEN result
        ELSE IF \E II \in 0..(ENTRIES - 1) : Bad(II)
        THEN Result(IRIS_FAILURE, <<"IMAGE_ARRAY", "entry">>)
        ELSE result

\* ------------------------------------------------------------ ICC_PROFILE
ICC_PROFILE_validate_offset(m, offset, size) ==
    DATA_BLOCK_validate_offset(m, offset, size, "ICC_PROFILE",
                               RECOVER_ICC_PROFILE)

ICC_PROFILE_validate_full(m, offset, size) ==
    LET result == ICC_PROFILE_validate_offset(m, offset, size)
        BYTES  == LOAD_U32(m, offset + ICC_PROFILE.ENTRY_NUMBER)
    IN  IF And(result, IRIS_FAILURE) THEN result
        ELSE IF offset + ICC_PROFILE.HEADER_SIZE + BYTES > size
        THEN Result(IRIS_FAILURE, <<"ICC_PROFILE", "out of bounds">>)
        ELSE result

\* read_profile: the BYTES bytes behind the header, as a string.
ICC_PROFILE_read_profile(m, offset, size) ==
    LET BYTES == LOAD_U32(m, offset + ICC_PROFILE.ENTRY_NUMBER)
        start == offset + ICC_PROFILE.HEADER_SIZE
    IN  IF start + BYTES > size
        THEN Raised(<<"ICC_PROFILE", "out of bounds">>)
        ELSE Returned([i \in 1..BYTES |-> LOAD_U8(m, start + i - 1)])

\* ------------------------------------------------------------ ANNOTATIONS
ANNOTATIONS_validate_offset(m, offset, size) ==
    DATA_BLOCK_validate_offset(m, offset, size, "ANNOTATIONS",
                               RECOVER_ANNOTATIONS)
ANNOTATION_BYTES_validate_offset(m, offset, size) ==
    DATA_BLOCK_validate_offset(m, offset, size, "ANNOTATION_BYTES",
                               RECOVER_ANNOTATION_BYTES)
ANNOTATION_GROUP_SIZES_validate_offset(m, offset, size) ==
    DATA_BLOCK_validate_offset(m, offset, size, "ANNOTATION_GROUP_SIZES",
                               RECOVER_ANNOTATION_GROUP_SIZES)

\* The loop adds the same two loads from the block header (__ptr, not
\* __array) once per entry.
ANNOTATION_GROUP_SIZES_validate_full(m, offset, size) ==
    LET result  == ANNOTATION_GROUP_SIZES_validate_offset(m, offset, size)
        STEP    == LOAD_U16(m, offset + ANNOTATION_GROUP_SIZES.ENTRY_SIZE)
        ENTRIES == LOAD_U32(m, offset + ANNOTATION_GROUP_SIZES.ENTRY_NUMBER)
        start   == offset + ANNOTATION_GROUP_SIZES.HEADER_SIZE
        each    == LOAD_U16(m, offset + ANNOTATION_GROUP_SIZE.LABEL_SIZE)
                    + LOAD_U24(m, offset + ANNOTATION_GROUP_SIZE.ENTRIES_NUMBER)
                        * 3
    IN  IF And(result, IRIS_FAILURE)
        THEN [result |-> result, expected_bytes |-> 0]
        ELSE IF start + ArrayBytes(ENTRIES, STEP) > size
        THEN [result |-> Result(IRIS_FAILURE,
                                <<"ANNOTATION_GROUP_SIZES", "out of bounds">>),
              expected_bytes |-> 0]
        ELSE [result |-> result, expected_bytes |-> ENTRIES * each]

\* No validate_offset here: the source starts with the byte count.
ANNOTATION_GROUP_BYTES_validate_full(m, offset, size, expected_bytes) ==
    LET BYTES == LOAD_U32(m, offset + ANNOTATION_GROUP_BYTES.ENTRY_NUMBER)
    IN  IF BYTES # expected_bytes
        THEN Result(IRIS_FAILURE, <<"ANNOTATION_GROUP_BYTES", "expected bytes">>)
        ELSE IF offset + BYTES > size
        THEN Result(IRIS_FAILURE, <<"ANNOTATION_GROUP_BYTES", "out of bounds">>)
        ELSE Success

ANNOTATIONS_groups(m, offset, size) ==
    LET SIZES_OFFSET == LOAD_U64(m, offset + ANNOTATIONS.GROUP_SIZES_OFFSET)
        BYTES_OFFSET == LOAD_U64(m, offset + ANNOTATIONS.GROUP_BYTES_OFFSET)
    IN  /\ SIZES_OFFSET # NULL_OFFSET /\ SIZES_OFFSET < size
        /\ BYTES_OFFSET # NULL_OFFSET /\ BYTES_OFFSET < size

\* The group offsets are loaded from __base + GROUP_SIZES_OFFSET (no
\* __offset); the entry's bytes offset is loaded at IMAGE_ENTRY::BYTES_OFFSET;
\* the annotation type is loaded from the block header (__ptr), not the entry.
ANNOTATIONS_validate_full(m, offset, size) ==
    LET result  == ANNOTATIONS_validate_offset(m, offset, size)
        STEP    == LOAD_U16(m, offset + ANNOTATIONS.ENTRY_SIZE)
        ENTRIES == LOAD_U32(m, offset + ANNOTATIONS.ENTRY_NUMBER)
        GROUP_SIZES == ANNOTATION_GROUP_SIZES_validate_full(m,
                           LOAD_U64(m, ANNOTATIONS.GROUP_SIZES_OFFSET), size)
        GROUP_BYTES == ANNOTATION_GROUP_BYTES_validate_full(m,
                           LOAD_U64(m, ANNOTATIONS.GROUP_BYTES_OFFSET), size,
                           GROUP_SIZES.expected_bytes)
        start   == offset + ANNOTATIONS.HEADER_SIZE
        Bad(AI) ==
            LET array == start + AI * STEP
                bytes_offset == LOAD_U64(m, array + IMAGE_ENTRY.BYTES_OFFSET)
            IN  \/ bytes_offset = NULL_OFFSET
                \/ bytes_offset > size
                \/ ~VALIDATE_ANNOTATION_TYPE(
                        LOAD_U8(m, offset + ANNOTATION_ENTRY.FORMAT))
    IN  IF And(result, IRIS_FAILURE) THEN result
        ELSE IF ANNOTATIONS_groups(m, offset, size)
                /\ And(GROUP_SIZES.result, IRIS_FAILURE)
        THEN GROUP_SIZES.result
        ELSE IF ANNOTATIONS_groups(m, offset, size)
                /\ And(GROUP_BYTES, IRIS_FAILURE)
        THEN GROUP_BYTES
        ELSE IF start + ArrayBytes(ENTRIES, STEP) > size
        THEN Result(IRIS_FAILURE, <<"ANNOTATIONS", "out of bounds">>)
        ELSE IF \E AI \in 0..(ENTRIES - 1) : Bad(AI)
        THEN Result(IRIS_FAILURE, <<"ANNOTATIONS", "entry">>)
        ELSE Success

\* read_bytes of an annotation's byte block: the byte count and where the
\* bytes start, or a raise when they pass the end of the file.
ANNOTATION_BYTES_read_bytes(m, offset, size) ==
    LET byteSize == LOAD_U32(m, offset + ANNOTATION_BYTES.ENTRY_NUMBER)
        start    == offset + ANNOTATION_BYTES.HEADER_SIZE
    IN  IF start + byteSize > size
        THEN Raised(<<"ANNOTATION_BYTES", "out of bounds">>)
        ELSE Returned([offset |-> start, byteSize |-> byteSize])

\* The pairs of the group sizes array: every pair is loaded from the block
\* header (__ptr), whatever the entry.
ANNOTATION_GROUP_SIZES_read_group_sizes(m, offset, size) ==
    LET STEP    == LOAD_U16(m, offset + ANNOTATION_GROUP_SIZES.ENTRY_SIZE)
        ENTRIES == LOAD_U32(m, offset + ANNOTATION_GROUP_SIZES.ENTRY_NUMBER)
        start   == offset + ANNOTATION_GROUP_SIZES.HEADER_SIZE
    IN  IF start + ArrayBytes(ENTRIES, STEP) > size
        THEN Raised(<<"ANNOTATION_GROUP_SIZES", "out of bounds">>)
        ELSE Returned([GI \in 1..ENTRIES |->
                <<LOAD_U16(m, offset + ANNOTATION_GROUP_SIZE.LABEL_SIZE),
                  LOAD_U32(m, offset + ANNOTATION_GROUP_SIZE.ENTRIES_NUMBER)>>])

\* Where group GI of the sizes array starts in the group bytes.
GroupStart(sizes, start, GI) ==
    IF GI = 1 THEN start
    ELSE start + (GI - 1) * (sizes[1][1] + sizes[1][2] * 3)

\* read_bytes of the group bytes: the groups keyed by label, a later group
\* replacing an earlier one of the same label.
ANNOTATION_GROUP_BYTES_read_bytes(m, offset, size, sizes) ==
    LET BYTES == LOAD_U32(m, offset + ANNOTATION_GROUP_BYTES.ENTRY_NUMBER)
        start == offset + ANNOTATION_GROUP_BYTES.HEADER_SIZE
        total_size ==
            IF Len(sizes) = 0 THEN 0
            ELSE Len(sizes) * (sizes[1][1] + sizes[1][2] * 3)
        Label(GI) ==
            [i \in 1..sizes[GI][1] |->
                LOAD_U8(m, GroupStart(sizes, start, GI) + i - 1)]
        Last(GI) == \A GJ \in (GI + 1)..Len(sizes) : Label(GJ) # Label(GI)
    IN  IF total_size # BYTES
        THEN Raised(<<"ANNOTATION_GROUP_BYTES", "expected bytes">>)
        ELSE IF start + BYTES > size
        THEN Raised(<<"ANNOTATION_GROUP_BYTES", "out of bounds">>)
        ELSE Returned({[label  |-> Label(GI),
                        offset |-> GroupStart(sizes, start, GI),
                        number |-> sizes[GI][2]] :
                            GI \in {GJ \in 1..Len(sizes) : Last(GJ)}})

\* get_group_sizes and get_group_bytes followed by the two reads.
ANNOTATIONS_read_groups(m, offset, size) ==
    LET SIZES_OFFSET == LOAD_U64(m, offset + ANNOTATIONS.GROUP_SIZES_OFFSET)
        BYTES_OFFSET == LOAD_U64(m, offset + ANNOTATIONS.GROUP_BYTES_OFFSET)
        result     == ANNOTATION_GROUP_SIZES_validate_offset(m, SIZES_OFFSET,
                                                             size)
        size_array == ANNOTATION_GROUP_SIZES_read_group_sizes(m, SIZES_OFFSET,
                                                              size)
    IN  IF And(result, IRIS_FAILURE) THEN Raised(result.msg)
        ELSE IF size_array.raised THEN size_array
        ELSE IF BYTES_OFFSET = NULL_OFFSET \/ BYTES_OFFSET > size
        THEN Raised(<<"ANNOTATION_GROUP_BYTES", "invalid offset">>)
        ELSE ANNOTATION_GROUP_BYTES_read_bytes(m, BYTES_OFFSET, size,
                                               size_array.value)

\* read_annotations. Each entry's annotation is assembled in a local and
\* dropped at the end of the loop body: nothing is ever inserted into the
\* returned map. The entry's bytes offset is loaded at
\* IMAGE_ENTRY::BYTES_OFFSET, its type from the block header (__ptr).
ANNOTATIONS_read_annotations(m, offset, size) ==
    LET STEP    == LOAD_U16(m, offset + ANNOTATIONS.ENTRY_SIZE)
        ENTRIES == LOAD_U32(m, offset + ANNOTATIONS.ENTRY_NUMBER)
        start   == offset + ANNOTATIONS.HEADER_SIZE
        annotations == <<>>
        bytes_array == <<>>
        bytes_offset(AI) ==
            LOAD_U64(m, start + AI * STEP + IMAGE_ENTRY.BYTES_OFFSET)
        Throws(AI) ==
            \/ bytes_offset(AI) = NULL_OFFSET
            \/ bytes_offset(AI) > size
            \/ ANNOTATION_BYTES_read_bytes(m, bytes_offset(AI), size).raised
            \/ ~VALIDATE_ANNOTATION_TYPE(
                    LOAD_U8(m, offset + ANNOTATION_ENTRY.FORMAT))
        groups  == ANNOTATIONS_read_groups(m, offset, size)
    IN  IF start + ArrayBytes(ENTRIES, STEP) > size
        THEN Raised(<<"ANNOTATIONS", "out of bounds">>)
        ELSE IF \E AI \in 0..(ENTRIES - 1) : Throws(AI)
        THEN Raised(<<"ANNOTATIONS", "entry">>)
        ELSE IF ~ANNOTATIONS_groups(m, offset, size)
        THEN Returned([annotations |-> annotations, groups |-> {},
                       bytes_array |-> bytes_array])
        ELSE IF groups.raised THEN groups
        ELSE Returned([annotations |-> annotations, groups |-> groups.value,
                       bytes_array |-> bytes_array])

\* --------------------------------------------------------------- METADATA
METADATA_validate_offset(m, offset, size) ==
    DATA_BLOCK_validate_offset(m, offset, size, "METADATA", RECOVER_METADATA)

\* attributes(), image_array(), color_profile(), annotations(): the stored
\* child offset is neither NULL_OFFSET nor beyond the file.
METADATA_attributes(m, offset, size) ==
    LET child == LOAD_U64(m, offset + METADATA.ATTRIBUTES_OFFSET)
    IN  child # NULL_OFFSET /\ child < size
METADATA_image_array(m, offset, size) ==
    LET child == LOAD_U64(m, offset + METADATA.IMAGES_OFFSET)
    IN  child # NULL_OFFSET /\ child < size
METADATA_color_profile(m, offset, size) ==
    LET child == LOAD_U64(m, offset + METADATA.ICC_COLOR_OFFSET)
    IN  child # NULL_OFFSET /\ child < size
METADATA_annotations(m, offset, size) ==
    LET child == LOAD_U64(m, offset + METADATA.ANNOTATIONS_OFFSET)
    IN  child # NULL_OFFSET /\ child < size

\* The annotations child is built from the IMAGES_OFFSET field.
METADATA_validate_full(m, offset, size) ==
    LET result == METADATA_validate_offset(m, offset, size)
        attrs  == ATTRIBUTES_validate_full(m,
                      LOAD_U64(m, offset + METADATA.ATTRIBUTES_OFFSET), size)
        images == IMAGE_ARRAY_validate_full(m,
                      LOAD_U64(m, offset + METADATA.IMAGES_OFFSET), size)
        icc    == ICC_PROFILE_validate_full(m,
                      LOAD_U64(m, offset + METADATA.ICC_COLOR_OFFSET), size)
        notes  == ANNOTATIONS_validate_full(m,
                      LOAD_U64(m, offset + METADATA.IMAGES_OFFSET), size)
    IN  IF And(result, IRIS_FAILURE) THEN result
        ELSE IF METADATA_attributes(m, offset, size)
                /\ And(attrs, IRIS_FAILURE) THEN attrs
        ELSE IF METADATA_image_array(m, offset, size)
                /\ And(images, IRIS_FAILURE) THEN images
        ELSE IF METADATA_color_profile(m, offset, size)
                /\ And(icc, IRIS_FAILURE) THEN icc
        ELSE IF METADATA_annotations(m, offset, size)
                /\ And(notes, IRIS_FAILURE) THEN notes
        ELSE Success

\* ------------------------------------------------------------ FILE_HEADER
\* A validate_header that never compares the stored file size.
FILE_HEADER_validate_header_unsized(m, size) ==
    IF ~DATA_BLOCK_bool(HEADER_OFFSET, size)
    THEN Result(IRIS_VALIDATION_FAILURE, <<"FILE_HEADER", "size">>)
    ELSE IF LOAD_U32(m, HEADER_OFFSET + FILE_HEADER.MAGIC_BYTES_OFFSET)
                # MAGIC_BYTES
    THEN Result(IRIS_FAILURE, <<"FILE_HEADER", "magic">>)
    ELSE IF LOAD_U16(m, HEADER_OFFSET + FILE_HEADER.RECOVERY)
                # RECOVER_HEADER
    THEN Result(IRIS_VALIDATION_FAILURE, <<"FILE_HEADER", "recovery tag">>)
    ELSE Result(IRIS_SUCCESS, <<>>)

\* The version warning is assembled in a local Result and then dropped: the
\* function ends with "return IRIS_SUCCESS".
FILE_HEADER_validate_header(m, size) ==
    LET major   == LOAD_U32(m, HEADER_OFFSET + FILE_HEADER.EXTENSION_MAJOR)
                       % U16_MOD
        minor   == LOAD_U32(m, HEADER_OFFSET + FILE_HEADER.EXTENSION_MINOR)
                       % U16_MOD
        result  == IF major > IRIS_EXTENSION_MAJOR \/ minor > IRIS_EXTENSION_MINOR
                   THEN Result(IRIS_SUCCESS \cup IRIS_WARNING_VALIDATION,
                               <<"FILE_HEADER", "version">>)
                   ELSE Success
    IN  IF ~DATA_BLOCK_bool(HEADER_OFFSET, size)
        THEN Result(IRIS_VALIDATION_FAILURE, <<"FILE_HEADER", "size">>)
        ELSE IF LOAD_U32(m, HEADER_OFFSET + FILE_HEADER.MAGIC_BYTES_OFFSET)
                    # MAGIC_BYTES
        THEN Result(IRIS_FAILURE, <<"FILE_HEADER", "magic">>)
        ELSE IF LOAD_U16(m, HEADER_OFFSET + FILE_HEADER.RECOVERY)
                    # RECOVER_HEADER
        THEN Result(IRIS_VALIDATION_FAILURE, <<"FILE_HEADER", "recovery tag">>)
        ELSE IF LOAD_U64(m, HEADER_OFFSET + FILE_HEADER.FILE_SIZE) # size
        THEN Result(IRIS_VALIDATION_FAILURE, <<"FILE_HEADER", "file size">>)
        ELSE Result(IRIS_SUCCESS, <<>>)

FILE_HEADER_validate_full(m, size) ==
    LET result   == FILE_HEADER_validate_header(m, size)
        table    == TILE_TABLE_validate_offset(m,
                        LOAD_U64(m, HEADER_OFFSET + FILE_HEADER.TILE_TABLE_OFFSET),
                        size)
        metadata == METADATA_validate_offset(m,
                        LOAD_U64(m, HEADER_OFFSET + FILE_HEADER.METADATA_OFFSET),
                        size)
    IN  IF And(result, IRIS_FAILURE) THEN result
        ELSE IF And(table, IRIS_FAILURE) THEN table
        ELSE metadata

\* header.extVersion of read_header
FILE_HEADER_extVersion(m) ==
    LOAD_U16(m, HEADER_OFFSET + FILE_HEADER.EXTENSION_MAJOR) * U16_MOD
        + LOAD_U16(m, HEADER_OFFSET + FILE_HEADER.EXTENSION_MINOR)

FILE_HEADER_get_tile_table(m, size) ==
    LET header == FILE_HEADER_validate_header(m, size)
        child  == LOAD_U64(m, HEADER_OFFSET + FILE_HEADER.TILE_TABLE_OFFSET)
        result == TILE_TABLE_validate_offset(m, child, size)
    IN  IF And(header, IRIS_FAILURE) THEN Raised(header.msg)
        ELSE IF FILE_HEADER_extVersion(m) = 0
        THEN Raised(<<"FILE_HEADER", "extVersion">>)
        ELSE IF And(result, IRIS_FAILURE) THEN Raised(result.msg)
        ELSE Returned(child)

FILE_HEADER_get_metadata(m, size) ==
    LET header == FILE_HEADER_validate_header(m, size)
        child  == LOAD_U64(m, HEADER_OFFSET + FILE_HEADER.METADATA_OFFSET)
        result == METADATA_validate_offset(m, child, size)
    IN  IF And(header, IRIS_FAILURE) THEN Raised(header.msg)
        ELSE IF FILE_HEADER_extVersion(m) = 0
        THEN Raised(<<"FILE_HEADER", "extVersion">>)
        ELSE IF And(result, IRIS_FAILURE) THEN Raised(result.msg)
        ELSE Returned(child)

\* validate_file_structure is noexcept: a raise of get_tile_table or
\* get_metadata inside it ends the process (std::terminate); "terminated"
\* records that outcome, and no Result is returned then.
validate_file_structure(m, size) ==
    LET header   == FILE_HEADER_validate_full(m, size)
        TABLE    == FILE_HEADER_get_tile_table(m, size)
        table    == TILE_TABLE_validate_full(m, TABLE.value, size)
        META     == FILE_HEADER_get_metadata(m, size)
        metadata == METADATA_validate_full(m, META.value, size)
        Return(result) == [terminated |-> FALSE, result |-> result]
        Terminate(msg) == [terminated |-> TRUE, result |-> msg]
    IN  IF header.flag # IRIS_SUCCESS THEN Return(header)
        ELSE IF TABLE.raised THEN Terminate(TABLE.value)
        ELSE IF table.flag # IRIS_SUCCESS THEN Return(table)
        ELSE IF META.raised THEN Terminate(META.value)
        ELSE IF metadata.flag # IRIS_SUCCESS THEN Return(metadata)
        ELSE Return(Success)

\* ----------------------------------------------------------- the file map
FILE_HEADER_read_header(m, size) ==
    LET result == FILE_HEADER_validate_header(m, size)
    IN  IF And(result, IRIS_FAILURE) THEN Raised(result.msg)
        ELSE Returned(
            [fileSize   |-> LOAD_U64(m, HEADER_OFFSET + FILE_HEADER.FILE_SIZE),
             extVersion |-> FILE_HEADER_extVersion(m),
             revision   |-> LOAD_U32(m, HEADER_OFFSET
                                            + FILE_HEADER.FILE_REVISION)])

\* get_attributes ... get_annotations: the child reader, or a raise when the
\* child's validate_offset fails.
METADATA_get_attributes(m, offset, size) ==
    LET child  == LOAD_U64(m, offset + METADATA.ATTRIBUTES_OFFSET)
        result == ATTRIBUTES_validate_offset(m, child, size)
    IN  IF And(result, IRIS_VALIDATION_FAILURE) THEN Raised(result.msg)
        ELSE Returned(child)
METADATA_get_image_array(m, offset, size) ==
    LET child  == LOAD_U64(m, offset + METADATA.IMAGES_OFFSET)
        result == IMAGE_ARRAY_validate_offset(m, child, size)
    IN  IF And(result, IRIS_VALIDATION_FAILURE) THEN Raised(result.msg)
        ELSE Returned(child)
METADATA_get_color_profile(m, offset, size) ==
    LET child  == LOAD_U64(m, offset + METADATA.ICC_COLOR_OFFSET)
        result == ICC_PROFILE_validate_offset(m, child, size)
    IN  IF And(result, IRIS_VALIDATION_FAILURE) THEN Raised(result.msg)
        ELSE Returned(child)
METADATA_get_annotations(m, offset, size) ==
    LET child  == LOAD_U64(m, offset + METADATA.ANNOTATIONS_OFFSET)
        result == ANNOTATIONS_validate_offset(m, child, size)
    IN  IF And(result, IRIS_VALIDATION_FAILURE) THEN Raised(result.msg)
        ELSE Returned(child)

ANNOTATIONS_get_group_sizes(m, offset, size) ==
    LET child  == LOAD_U64(m, offset + ANNOTATIONS.GROUP_SIZES_OFFSET)
        result == ANNOTATION_GROUP_SIZES_validate_offset(m, child, size)
    IN  IF And(result, IRIS_FAILURE) THEN Raised(result.msg)
        ELSE Returned(child)
\* The result of the child's validate_offset is dropped here.
ANNOTATIONS_get_group_bytes(m, offset, size) ==
    LET child == LOAD_U64(m, offset + ANNOTATIONS.GROUP_BYTES_OFFSET)
    IN  IF child = NULL_OFFSET \/ child > size
        THEN Raised(<<"ANNOTATION_GROUP_BYTES", "offset">>)
        ELSE Returned(child)

\* The title is copied out of the region before any size is checked.
IMAGE_BYTES_read_image_bytes(m, offset, size) ==
    LET TITLE    == LOAD_U16(m, offset + IMAGE_BYTES.TITLE_SIZE)
        byteSize == LOAD_U32(m, offset + IMAGE_BYTES.IMAGE_SIZE)
        start    == offset + IMAGE_BYTES.HEADER_SIZE
    IN  IF TITLE = 0 \/ TITLE > UINT16_MAX
        THEN Raised(<<"IMAGE_BYTES", "title">>)
        ELSE IF byteSize = 0 \/ byteSize > UINT32_MAX
        THEN Raised(<<"IMAGE_BYTES", "image size">>)
        ELSE IF start + TITLE + byteSize > size
        THEN Raised(<<"IMAGE_BYTES", "out of bounds">>)
        ELSE Returned(
            [title    |-> [i \in 1..TITLE |-> LOAD_U8(m, start + i - 1)],
             offset   |-> start + TITLE,
             byteSize |-> byteSize])

\* IMAGE_BYTES::size: TITLE * BYTES is a product of a promoted uint16_t and a
\* uint32_t, it wraps.
IMAGE_BYTES_size(m, offset) ==
    LET TITLE == LOAD_U16(m, offset + IMAGE_BYTES.TITLE_SIZE)
        BYTES == LOAD_U32(m, offset + IMAGE_BYTES.IMAGE_SIZE)
    IN  IMAGE_BYTES.HEADER_SIZE + ArrayBytes(BYTES, TITLE)

\* The images read from the entries before entry II: a later entry with a
\* title already read is skipped.
RECURSIVE ReadImageEntries(_, _, _, _, _)
ReadImageEntries(m, start, STEP, size, II) ==
    IF II = 0 THEN Returned({})
    ELSE \* one pass of the loop, on the entry II - 1
         LET images       == ReadImageEntries(m, start, STEP, size, II - 1)
             array        == start + (II - 1) * STEP
             bytes_offset == LOAD_U64(m, array + IMAGE_ENTRY.BYTES_OFFSET)
             image        == IMAGE_BYTES_read_image_bytes(m, bytes_offset, size)
             encoding     == LOAD_U8(m, array + IMAGE_ENTRY.ENCODING)
             sourceFormat == LOAD_U8(m, array + IMAGE_ENTRY.FORMAT)
         IN  IF images.raised THEN images
             ELSE IF bytes_offset = NULL_OFFSET
             THEN Raised(<<"IMAGE_ARRAY", "invalid offset">>)
             ELSE IF bytes_offset > size
             THEN Raised(<<"IMAGE_ARRAY", "entry out of bounds">>)
             ELSE IF image.raised THEN image
             ELSE IF \E read \in images.value : read.title = image.value.title
             THEN images
             ELSE IF ~VALIDATE_IMAGE_ENCODING_TYPE(encoding)
             THEN Raised(<<"IMAGE_ARRAY", "encoding">>)
             ELSE IF ~VALIDATE_PIXEL_FORMAT(sourceFormat)
             THEN Raised(<<"IMAGE_ARRAY", "format">>)
             ELSE Returned(images.value \cup
                    {[title    |-> image.value.title,
                      offset   |-> image.value.offset,
                      byteSize |-> image.value.byteSize,
                      width    |-> LOAD_U32(m, array + IMAGE_ENTRY.WIDTH),
                      height   |-> LOAD_U32(m, array + IMAGE_ENTRY.HEIGHT),
                      encoding |-> encoding,
                      sourceFormat |-> sourceFormat,
                      orientation |->
                        LOAD_U16(m, array + IMAGE_ENTRY.ORIENTATION) % 360]})

\* read_assoc_images(__base, &vector): the local bytes_array is assigned to
\* the caller's vector at the end, and nothing is ever put into it.
IMAGE_ARRAY_read_assoc_images(m, offset, size) ==
    LET STEP    == LOAD_U16(m, offset + IMAGE_ARRAY.ENTRY_SIZE)
        ENTRIES == LOAD_U32(m, offset + IMAGE_ARRAY.ENTRY_NUMBER)
        start   == offset + IMAGE_ARRAY.HEADER_SIZE
        bytes_array == <<>>
        images  == ReadImageEntries(m, start, STEP, size, ENTRIES)
    IN  IF start + ArrayBytes(ENTRIES, STEP) > size
        THEN Raised(<<"IMAGE_ARRAY", "out of bounds">>)
        ELSE IF images.raised THEN images
        ELSE Returned([images |-> images.value, bytes_array |-> bytes_array])

\* One entry of the file map; the map is keyed by its offset.
MapEntry(type, offset) == [type |-> type, offset |-> offset]
\* map[key] = entry in the order of the stages: an entry is replaced by the
\* entry a later stage stores under its key.
FileMap(stages) ==
    {entry \in UNION {stages[i] : i \in DOMAIN stages} :
        \E i \in DOMAIN stages :
            /\ entry \in stages[i]
            /\ \A j \in DOMAIN stages : \A later \in stages[j] :
                    j > i => later.offset # entry.offset}

\* The steps of generate_file_map run one after the other, and the first
\* raise ends the call: a then b.
Then(a, b) ==
    IF a.raised THEN a
    ELSE IF b.raised THEN b
    ELSE Returned(a.value \o b.value)
\* map[block.__offset] = {type, block} for the block a getter returned.
Entry(type, block) ==
    IF block.raised THEN block
    ELSE Returned(<<{MapEntry(type, block.value)}>>)
\* if (linked) {...}
Linked(linked, entries) == IF linked THEN entries ELSE Returned(<<>>)
\* for (auto&& BYTES : vector) map[BYTES.__offset] = {type, BYTES}, for the
\* vector a reader filled.
Streams(type, read) ==
    IF read.raised THEN read
    ELSE Returned(<<{MapEntry(type, read.value.bytes_array[i])
                        : i \in DOMAIN read.value.bytes_array}>>)
\* One entry for each tile of each layer of the table read.
Tiles(table) ==
    IF table.raised THEN table
    ELSE Returned(
        <<UNION {{MapEntry("TILE_DATA", table.value.layers[LI][TI].offset)
                    : TI \in DOMAIN table.value.layers[LI]}
                        : LI \in DOMAIN table.value.layers}>>)

\* The entries of the tile table and of the blocks and tiles below it.
TileTableMap(m, size) ==
    LET TABLE == FILE_HEADER_get_tile_table(m, size)
    IN  Then(Entry("TILE_TABLE", TABLE),
        Then(Entry("LAYER_EXTENTS",
                   TILE_TABLE_get_layer_extents(m, TABLE.value, size)),
        Then(Entry("TILE_OFFSETS",
                   TILE_TABLE_get_tile_offsets(m, TABLE.value, size)),
             Tiles(TILE_TABLE_read_tile_table(m, TABLE.value, size)))))

\* The entries of the associated images: the array, then one entry for each
\* Image Bytes block that read_assoc_images put into the vector.
ImagesMap(m, META, size) ==
    LET ARRAY == METADATA_get_image_array(m, META, size)
    IN  Then(Entry("ASSOCIATED_IMAGES", ARRAY),
             Streams("ASSOCIATED_IMAGE_BYTES",
                     IMAGE_ARRAY_read_assoc_images(m, ARRAY.value, size)))

\* The entries of the annotations: the array, one entry for each Annotation
\* Bytes block that read_annotations put into the vector, and the groups.
AnnotationsMap(m, META, size) ==
    LET ANNOT == METADATA_get_annotations(m, META, size)
    IN  Then(Entry("ANNOTATIONS", ANNOT),
        Then(Streams("ANNOTATION_BYTES",
                     ANNOTATIONS_read_annotations(m, ANNOT.value, size)),
             Linked(ANNOTATIONS_groups(m, ANNOT.value, size),
                Then(Entry("ANNOTATION_GROUP_SIZES",
                           ANNOTATIONS_get_group_sizes(m, ANNOT.value, size)),
                     Entry("ANNOTATION_GROUP_BYTES",
                           ANNOTATIONS_get_group_bytes(m, ANNOT.value,
                                                       size))))))

\* The entries of the metadata block and of the blocks it links.
MetadataMap(m, size) ==
    LET META == FILE_HEADER_get_metadata(m, size)
    IN  Then(Entry("METADATA", META),
        Then(Linked(METADATA_attributes(m, META.value, size),
                    Entry("ATTRIBUTES",
                          METADATA_get_attributes(m, META.value, size))),
        Then(Linked(METADATA_image_array(m, META.value, size),
                    ImagesMap(m, META.value, size)),
        Then(Linked(METADATA_color_profile(m, META.value, size),
                    Entry("ICC_PROFILE",
                          METADATA_get_color_profile(m, META.value, size))),
             Linked(METADATA_annotations(m, META.value, size),
                    AnnotationsMap(m, META.value, size))))))

\* The result of validate_header is dropped; read_header and the getters
\* raise on what they find.
generate_file_map(m, size) ==
    LET file_header == FILE_HEADER_read_header(m, size)
        entries ==
            Then(IF file_header.raised THEN file_header
                 ELSE Returned(<<{MapEntry("FILE_HEADER", HEADER_OFFSET)}>>),
            Then(TileTableMap(m, size), MetadataMap(m, size)))
    IN  IF entries.raised THEN entries
        ELSE Returned(FileMap(entries.value))

\* -------------------------------------------------- the file abstraction
METADATA_read_metadata(m, offset, size) ==
    LET result == METADATA_validate_offset(m, offset, size)
    IN  IF And(result, IRIS_FAILURE) THEN Raised(result.msg)
        ELSE Returned(
            [codec |-> [major |-> LOAD_U16(m, offset + METADATA.CODEC_MAJOR),
                        minor |-> LOAD_U16(m, offset + METADATA.CODEC_MINOR),
                        build |-> LOAD_U16(m, offset + METADATA.CODEC_BUILD)],
             micronsPerPixel |-> LOAD_F32(m, offset + METADATA.MICRONS_PIXEL),
             magnification   |-> LOAD_F32(m, offset + METADATA.MAGNIFICATION)])

\* abstraction.part = read: the first raise ends abstract_file_structure.
Part(part, read) ==
    IF read.raised THEN read
    ELSE Returned(<<[part |-> part, value |-> read.value]>>)
\* auto BLOCK = getter(__base)
Got(block) == IF block.raised THEN block ELSE Returned(<<>>)

AbstractAttributes(m, META, size) ==
    LET ATTRIBUES == METADATA_get_attributes(m, META, size)
    IN  Then(Got(ATTRIBUES),
             Part("attributes",
                  ATTRIBUTES_read_attributes(m, ATTRIBUES.value, size)))
AbstractImages(m, META, size) ==
    LET IMAGES == METADATA_get_image_array(m, META, size)
    IN  Then(Got(IMAGES),
             Part("images",
                  IMAGE_ARRAY_read_assoc_images(m, IMAGES.value, size)))
AbstractProfile(m, META, size) ==
    LET PROFILE == METADATA_get_color_profile(m, META, size)
    IN  Then(Got(PROFILE),
             Part("ICC_profile",
                  ICC_PROFILE_read_profile(m, PROFILE.value, size)))
AbstractAnnotations(m, META, size) ==
    LET ANNOT == METADATA_get_annotations(m, META, size)
    IN  Then(Got(ANNOT),
             Part("annotations",
                  ANNOTATIONS_read_annotations(m, ANNOT.value, size)))

AbstractTileTable(m, size) ==
    LET TABLE == FILE_HEADER_get_tile_table(m, size)
    IN  Then(Got(TABLE),
             Part("tileTable", TILE_TABLE_read_tile_table(m, TABLE.value, size)))
AbstractMetadata(m, size) ==
    LET META == FILE_HEADER_get_metadata(m, size)
    IN  Then(Got(META),
        Then(Part("metadata", METADATA_read_metadata(m, META.value, size)),
        Then(Linked(METADATA_attributes(m, META.value, size),
                    AbstractAttributes(m, META.value, size)),
        Then(Linked(METADATA_image_array(m, META.value, size),
                    AbstractImages(m, META.value, size)),
        Then(Linked(METADATA_color_profile(m, META.value, size),
                    AbstractProfile(m, META.value, size)),
             Linked(METADATA_annotations(m, META.value, size),
                    AbstractAnnotations(m, META.value, size)))))))

abstract_file_structure(m, size) ==
    Then(Part("header", FILE_HEADER_read_header(m, size)),
    Then(AbstractTileTable(m, size), AbstractMetadata(m, size)))

\* ---------------------------------------------------------------- writers
\* A writer returns the region it leaves behind and whether it raised; a
\* writer that raises half way leaves the bytes it had already written.
Stored(m) == [raised |-> FALSE, mem |-> m]
Threw(m)  == [raised |-> TRUE, mem |-> m]

STORE_EXTENT(m, offset, extent) ==
    STORE_F32(
      STORE_U32(
        STORE_U32(m, offset + LAYER_EXTENT.X_TILES, extent.xTiles),
        offset + LAYER_EXTENT.Y_TILES, extent.yTiles),
      offset + LAYER_EXTENT.SCALE, extent.scale)

RECURSIVE StoreExtentEntries(_, _, _, _)
StoreExtentEntries(m, offset, extents, n) ==
    IF n = 0 THEN m
    ELSE STORE_EXTENT(StoreExtentEntries(m, offset, extents, n - 1),
                      offset + (n - 1) * LAYER_EXTENT.SIZE, extents[n])

SIZE_EXTENTS(extents) ==
    LAYER_EXTENTS.HEADER_SIZE + Len(extents) * LAYER_EXTENT.SIZE

STORE_EXTENTS(m, offset, extents) ==
    IF Len(extents) > UINT32_MAX THEN Threw(m)
    ELSE LET m1 == STORE_U64(m,  offset + LAYER_EXTENTS.VALIDATION, offset)
             m2 == STORE_U16(m1, offset + LAYER_EXTENTS.RECOVERY,
                             RECOVER_LAYER_EXTENTS)
             m3 == STORE_U16(m2, offset + LAYER_EXTENTS.ENTRY_SIZE,
                             LAYER_EXTENT.SIZE)
             m4 == STORE_U32(m3, offset + LAYER_EXTENTS.ENTRY_NUMBER,
                             Len(extents))
         IN  Stored(StoreExtentEntries(m4, offset + LAYER_EXTENTS.HEADER_SIZE,
                                       extents, Len(extents)))

\* The tiles of all layers in layer order.
RECURSIVE FlattenLayers(_, _)
FlattenLayers(layers, n) ==
    IF n = 0 THEN <<>> ELSE FlattenLayers(layers, n - 1) \o layers[n]

SIZE_TILE_OFFSETS(layers) ==
    TILE_OFFSETS.HEADER_SIZE
        + Len(FlattenLayers(layers, Len(layers))) * TILE_OFFSET.SIZE

\* The tile loop: entry n is checked and written after entries 1..n-1; the
\* first entry over a limit raises with the earlier entries already written.
RECURSIVE StoreTileEntries(_, _, _, _)
StoreTileEntries(m, offset, tiles, n) ==
    IF n = 0 THEN Stored(m)
    ELSE LET before == StoreTileEntries(m, offset, tiles, n - 1)
             at     == offset + (n - 1) * TILE_OFFSET.SIZE
         IN  IF before.raised THEN before
             ELSE IF tiles[n].offset > UINT40_MAX THEN Threw(before.mem)
             ELSE IF tiles[n].size > UINT24_MAX THEN Threw(before.mem)
             ELSE Stored(
                    STORE_U24(
                      STORE_U40(before.mem, at + TILE_OFFSET.OFFSET,
                                tiles[n].offset),
                      at + TILE_OFFSET.TILE_SIZE, tiles[n].size))

\* The block header is written before the first tile is looked at.
STORE_TILE_OFFSETS(m, offset, layers) ==
    LET tiles == FlattenLayers(layers, Len(layers))
        total_tiles == Len(tiles) % U32_MOD
        m1 == STORE_U64(m,  offset + TILE_OFFSETS.VALIDATION, offset)
        m2 == STORE_U16(m1, offset + TILE_OFFSETS.RECOVERY, RECOVER_TILE_OFFSETS)
        m3 == STORE_U16(m2, offset + TILE_OFFSETS.ENTRY_SIZE, TILE_OFFSET.SIZE)
        m4 == STORE_U32(m3, offset + TILE_OFFSETS.ENTRY_NUMBER, total_tiles)
    IN  StoreTileEntries(m4, offset + TILE_OFFSETS.HEADER_SIZE, tiles,
                         Len(tiles))

\* The writers validate their children with a reader of file size UINT64_MAX.
STORE_TILE_TABLE(m, CI) ==
    LET tiles   == TILE_OFFSETS_validate_offset(m, CI.tilesOffset, UINT64_MAX)
        extents == LAYER_EXTENTS_validate_offset(m, CI.layerExtentsOffset,
                                                 UINT64_MAX)
        ptr == CI.tileTableOffset
        m1 == STORE_U64(m,  ptr + TILE_TABLE.VALIDATION, CI.tileTableOffset)
        m2 == STORE_U16(m1, ptr + TILE_TABLE.RECOVERY, RECOVER_TILE_TABLE)
        m3 == STORE_U8 (m2, ptr + TILE_TABLE.ENCODING, CI.encoding)
        m4 == STORE_U8 (m3, ptr + TILE_TABLE.FORMAT, CI.format)
        m5 == STORE_U64(m4, ptr + TILE_TABLE.CIPHER_OFFSET, NULL_OFFSET)
        m6 == STORE_U64(m5, ptr + TILE_TABLE.TILE_OFFSETS_OFFSET, CI.tilesOffset)
        m7 == STORE_U64(m6, ptr + TILE_TABLE.LAYER_EXTENTS_OFFSET,
                        CI.layerExtentsOffset)
        m8 == STORE_U32(m7, ptr + TILE_TABLE.X_EXTENT, CI.widthPixels)
        m9 == STORE_U32(m8, ptr + TILE_TABLE.Y_EXTENT, CI.heightPixels)
    IN  IF CI.tileTableOffset = NULL_OFFSET THEN Threw(m)
        ELSE IF ~VALIDATE_ENCODING_TYPE(CI.encoding) THEN Threw(m)
        ELSE IF ~VALIDATE_PIXEL_FORMAT(CI.format) /\ CI.format # Format.FORMAT_UNDEFINED
        THEN Threw(m)
        ELSE IF And(tiles, IRIS_FAILURE) THEN Threw(m)
        ELSE IF And(extents, IRIS_FAILURE) THEN Threw(m)
        ELSE Stored(m9)

STORE_METADATA(m, CI) ==
    LET BadChild(child, result) == child # NULL_OFFSET /\ And(result, IRIS_FAILURE)
        ptr == CI.metadataOffset
        m1  == STORE_U64(m,  ptr + METADATA.VALIDATION, CI.metadataOffset)
        m2  == STORE_U16(m1, ptr + METADATA.RECOVERY, RECOVER_METADATA)
        m3  == STORE_U16(m2, ptr + METADATA.CODEC_MAJOR, CI.codecVersion.major)
        m4  == STORE_U16(m3, ptr + METADATA.CODEC_MINOR, CI.codecVersion.minor)
        m5  == STORE_U16(m4, ptr + METADATA.CODEC_BUILD, CI.codecVersion.build)
        m6  == STORE_U64(m5, ptr + METADATA.ATTRIBUTES_OFFSET, CI.attributes)
        m7  == STORE_U64(m6, ptr + METADATA.IMAGES_OFFSET, CI.images)
        m8  == STORE_U64(m7, ptr + METADATA.ICC_COLOR_OFFSET, CI.ICC_profile)
        m9  == STORE_U64(m8, ptr + METADATA.ANNOTATIONS_OFFSET, CI.annotations)
        m10 == STORE_F32(m9, ptr + METADATA.MICRONS_PIXEL, CI.micronsPerPixel)
        m11 == STORE_F32(m10, ptr + METADATA.MAGNIFICATION, CI.magnification)
    IN  IF CI.metadataOffset = NULL_OFFSET THEN Threw(m)
        ELSE IF BadChild(CI.attributes,
                    ATTRIBUTES_validate_offset(m, CI.attributes, UINT64_MAX))
        THEN Threw(m)
        ELSE IF BadChild(CI.images,
                    IMAGE_ARRAY_validate_offset(m, CI.images, UINT64_MAX))
        THEN Threw(m)
        ELSE IF BadChild(CI.ICC_profile,
                    ICC_PROFILE_validate_offset(m, CI.ICC_profile, UINT64_MAX))
        THEN Threw(m)
        ELSE IF BadChild(CI.annotations,
                    ANNOTATIONS_validate_offset(m, CI.annotations, UINT64_MAX))
        THEN Threw(m)
        ELSE Stored(m11)

\* A STORE_FILE_HEADER that validates the tile table and not the metadata.
STORE_FILE_HEADER_unchecked(m, CI) ==
    LET table == TILE_TABLE_validate_full(m, CI.tileTableOffset, CI.fileSize)
        m1 == STORE_U32(m,  FILE_HEADER.MAGIC_BYTES_OFFSET, MAGIC_BYTES)
        m2 == STORE_U16(m1, FILE_HEADER.RECOVERY, RECOVER_HEADER)
        m3 == STORE_U64(m2, FILE_HEADER.FILE_SIZE, CI.fileSize)
        m4 == STORE_U16(m3, FILE_HEADER.EXTENSION_MAJOR, IRIS_EXTENSION_MAJOR)
        m5 == STORE_U16(m4, FILE_HEADER.EXTENSION_MINOR, IRIS_EXTENSION_MINOR)
        m6 == STORE_U32(m5, FILE_HEADER.FILE_REVISION, CI.revision)
        m7 == STORE_U64(m6, FILE_HEADER.TILE_TABLE_OFFSET, CI.tileTableOffset)
        m8 == STORE_U64(m7, FILE_HEADER.METADATA_OFFSET, CI.metadataOffset)
    IN  IF CI.fileSize = 0 THEN Threw(m)
        ELSE IF And(table, IRIS_FAILURE) THEN Threw(m)
        ELSE Stored(m8)

\* Both subtrees are validated in full, with the file size of the create
\* info, before the first byte of the header is written.
STORE_FILE_HEADER(m, CI) ==
    LET table    == TILE_TABLE_validate_full(m, CI.tileTableOffset, CI.fileSize)
        metadata == METADATA_validate_full(m, CI.metadataOffset, CI.fileSize)
        m1 == STORE_U32(m,  FILE_HEADER.MAGIC_BYTES_OFFSET, MAGIC_BYTES)
        m2 == STORE_U16(m1, FILE_HEADER.RECOVERY, RECOVER_HEADER)
        m3 == STORE_U64(m2, FILE_HEADER.FILE_SIZE, CI.fileSize)
        m4 == STORE_U16(m3, FILE_HEADER.EXTENSION_MAJOR, IRIS_EXTENSION_MAJOR)
        m5 == STORE_U16(m4, FILE_HEADER.EXTENSION_MINOR, IRIS_EXTENSION_MINOR)
        m6 == STORE_U32(m5, FILE_HEADER.FILE_REVISION, CI.revision)
        m7 == STORE_U64(m6, FILE_HEADER.TILE_TABLE_OFFSET, CI.tileTableOffset)
        m8 == STORE_U64(m7, FILE_HEADER.METADATA_OFFSET, CI.metadataOffset)
    IN  IF CI.fileSize = 0 THEN Threw(m)
        ELSE IF And(table, IRIS_FAILURE) THEN Threw(m)
        ELSE IF And(metadata, IRIS_FAILURE) THEN Threw(m)
        ELSE Stored(m8)

\* Attributes: [type, version, entries], entries a sequence of [key, value]
\* byte strings in the container's iteration order.
STORE_ATTRIBUTES(m, info) ==
    LET sizes == ATTRIBUTES_SIZES_validate_offset(m, info.sizes, UINT64_MAX)
        bytes == ATTRIBUTES_BYTES_validate_offset(m, info.bytes, UINT64_MAX)
        ptr == info.attributesOffset
        m1 == STORE_U64(m,  ptr + ATTRIBUTES.VALIDATION, info.attributesOffset)
        m2 == STORE_U16(m1, ptr + ATTRIBUTES.RECOVERY, RECOVER_ATTRIBUTES)
        m3 == STORE_U8 (m2, ptr + ATTRIBUTES.FORMAT, info.type)
        m4 == STORE_U16(m3, ptr + ATTRIBUTES.VERSION, info.version)
        m5 == STORE_U64(m4, ptr + ATTRIBUTES.LENGTHS_OFFSET, info.sizes)
        m6 == STORE_U64(m5, ptr + ATTRIBUTES.BYTE_ARRAY_OFFSET, info.bytes)
    IN  IF info.attributesOffset = NULL_OFFSET THEN Threw(m)
        ELSE IF ~VALIDATE_METADATA_TYPE(info.type) THEN Threw(m)
        ELSE IF info.type = MetadataType.METADATA_DICOM /\ info.version = 0 THEN Threw(m)
        ELSE IF And(sizes, IRIS_FAILURE) THEN Threw(m)
        ELSE IF And(bytes, IRIS_FAILURE) THEN Threw(m)
        ELSE Stored(m6)

RECURSIVE StoreAttributeSizes(_, _, _, _)
StoreAttributeSizes(m, ptr, entries, n) ==
    IF n = 0 THEN m
    ELSE LET at == ptr + (n - 1) * ATTRIBUTE_SIZE.SIZE IN
         STORE_U32(
           STORE_U16(StoreAttributeSizes(m, ptr, entries, n - 1),
                     at + ATTRIBUTE_SIZE.KEY_SIZE, Len(entries[n].key)),
           at + ATTRIBUTE_SIZE.VALUE_SIZE, Len(entries[n].value))

SIZE_ATTRIBUTES_SIZES(attributes) ==
    ATTRIBUTES_SIZES.HEADER_SIZE + ATTRIBUTE_SIZE.SIZE * Len(attributes.entries)

STORE_ATTRIBUTES_SIZES(m, offset, attributes) ==
    LET entries == attributes.entries
        KeyTooLong == \E i \in DOMAIN entries : Len(entries[i].key) > UINT16_MAX
        ValueTooLong ==
            \E i \in DOMAIN entries : Len(entries[i].value) > UINT32_MAX
        m1 == STORE_U64(m,  offset + ATTRIBUTES_SIZES.VALIDATION, offset)
        m2 == STORE_U16(m1, offset + ATTRIBUTES_SIZES.RECOVERY,
                        RECOVER_ATTRIBUTES_SIZES)
        m3 == STORE_U16(m2, offset + ATTRIBUTES_SIZES.ENTRY_SIZE,
                        ATTRIBUTE_SIZE.SIZE)
        m4 == STORE_U32(m3, offset + ATTRIBUTES_SIZES.ENTRY_NUMBER, Len(entries))
    IN  IF offset = NULL_OFFSET THEN Threw(m)
        ELSE IF attributes.type = MetadataType.METADATA_I2S /\ (KeyTooLong \/ ValueTooLong)
        THEN Threw(m)
        ELSE IF attributes.type = MetadataType.METADATA_DICOM /\ ValueTooLong THEN Threw(m)
        ELSE IF attributes.type = MetadataType.METADATA_UNDEFINED THEN Threw(m)
        ELSE Stored(StoreAttributeSizes(m4,
                        offset + ATTRIBUTES_SIZES.HEADER_SIZE, entries,
                        Len(entries)))

RECURSIVE AttributeLengths(_, _)
AttributeLengths(entries, n) ==
    IF n = 0 THEN 0
    ELSE AttributeLengths(entries, n - 1)
            + Len(entries[n].key) + Len(entries[n].value)

SIZE_ATTRIBUTES_BYTES(attributes) ==
    ATTRIBUTES_BYTES.HEADER_SIZE
        + AttributeLengths(attributes.entries, Len(attributes.entries))

\* The bytes the payload loop copies: U16_CAST(key size) bytes of each key,
\* U32_CAST(value size) bytes of each value.
RECURSIVE AttributePayload(_, _)
AttributePayload(entries, n) ==
    IF n = 0 THEN <<>>
    ELSE AttributePayload(entries, n - 1)
            \o SubSeq(entries[n].key, 1, Len(entries[n].key) % U16_MOD)
            \o SubSeq(entries[n].value, 1, Len(entries[n].value) % U32_MOD)

\* The 32-bit limit of the total is checked after the payload is written.
STORE_ATTRIBUTES_BYTES(m, offset, attributes) ==
    LET payload == AttributePayload(attributes.entries, Len(attributes.entries))
        m1 == STORE_U64(m,  offset + ATTRIBUTES_BYTES.VALIDATION, offset)
        m2 == STORE_U16(m1, offset + ATTRIBUTES_BYTES.RECOVERY,
                        RECOVER_ATTRIBUTES_BYTES)
        m3 == MemCpy(m2, offset + ATTRIBUTES_BYTES.HEADER_SIZE, payload)
        m4 == STORE_U32(m3, offset + ATTRIBUTES_BYTES.ENTRY_NUMBER, Len(payload))
    IN  IF offset = NULL_OFFSET THEN Threw(m)
        ELSE IF attributes.type = MetadataType.METADATA_UNDEFINED THEN Threw(m)
        ELSE IF Len(payload) > UINT32_MAX THEN Threw(m3)
        ELSE Stored(m4)

\* The array header is written first; every image is checked just before its
\* own entry is written.
RECURSIVE StoreImageEntries(_, _, _, _)
StoreImageEntries(m, ptr, images, n) ==
    IF n = 0 THEN Stored(m)
    ELSE LET before == StoreImageEntries(m, ptr, images, n - 1)
             at     == ptr + (n - 1) * IMAGE_ENTRY.SIZE
             image  == images[n]
             m1 == STORE_U64(before.mem, at + IMAGE_ENTRY.BYTES_OFFSET,
                             image.offset)
             m2 == STORE_U32(m1, at + IMAGE_ENTRY.WIDTH, image.info.width)
             m3 == STORE_U32(m2, at + IMAGE_ENTRY.HEIGHT, image.info.height)
             m4 == STORE_U8 (m3, at + IMAGE_ENTRY.ENCODING, image.info.encoding)
             m5 == STORE_U8 (m4, at + IMAGE_ENTRY.FORMAT,
                             image.info.sourceFormat)
             m6 == STORE_U16(m5, at + IMAGE_ENTRY.ORIENTATION,
                             image.info.orientation)
         IN  IF before.raised THEN before
             ELSE IF image.offset = NULL_OFFSET THEN Threw(before.mem)
             ELSE IF image.info.width = 0 \/ image.info.width > UINT32_MAX
             THEN Threw(before.mem)
             ELSE IF image.info.height = 0 \/ image.info.height > UINT32_MAX
             THEN Threw(before.mem)
             ELSE IF ~VALIDATE_IMAGE_ENCODING_TYPE(image.info.encoding)
             THEN Threw(before.mem)
             ELSE IF ~VALIDATE_PIXEL_FORMAT(image.info.sourceFormat)
             THEN Threw(before.mem)
             ELSE Stored(m6)

SIZE_IMAGES_ARRAY(info) ==
    IMAGE_ARRAY.HEADER_SIZE + IMAGE_ENTRY.SIZE * Len(info.images)

STORE_IMAGES_ARRAY(m, info) ==
    LET ptr == info.offset
        m1 == STORE_U64(m,  ptr + IMAGE_ARRAY.VALIDATION, info.offset)
        m2 == STORE_U16(m1, ptr + IMAGE_ARRAY.RECOVERY,
                        RECOVER_ASSOCIATED_IMAGES)
        m3 == STORE_U16(m2, ptr + IMAGE_ARRAY.ENTRY_SIZE, IMAGE_ENTRY.SIZE)
        m4 == STORE_U32(m3, ptr + IMAGE_ARRAY.ENTRY_NUMBER, Len(info.images))
    IN  IF info.offset = NULL_OFFSET THEN Threw(m)
        ELSE IF Len(info.images) > UINT32_MAX THEN Threw(m)
        ELSE StoreImageEntries(m4, ptr + IMAGE_ARRAY.HEADER_SIZE, info.images,
                               Len(info.images))

\* ImageBytesCreateInfo: data is the byte string behind the data pointer
\* (empty for a null pointer), dataBytes its declared length.
SIZE_IMAGES_BYTES(image) ==
    IMAGE_BYTES.HEADER_SIZE + Len(image.title) + image.dataBytes

STORE_IMAGES_BYTES(m, info) ==
    LET ptr == info.offset
        m1 == STORE_U64(m,  ptr + IMAGE_BYTES.VALIDATION, info.offset)
        m2 == STORE_U16(m1, ptr + IMAGE_BYTES.RECOVERY,
                        RECOVER_ASSOCIATED_IMAGE_BYTES)
        m3 == STORE_U16(m2, ptr + IMAGE_BYTES.TITLE_SIZE, Len(info.title))
        m4 == STORE_U32(m3, ptr + IMAGE_BYTES.IMAGE_SIZE, info.dataBytes)
        m5 == MemCpy(m4, ptr + IMAGE_BYTES.HEADER_SIZE, info.title)
        m6 == MemCpy(m5, ptr + IMAGE_BYTES.HEADER_SIZE + Len(info.title),
                     SubSeq(info.data, 1, info.dataBytes))
    IN  IF info.offset = NULL_OFFSET THEN Threw(m)
        ELSE IF Len(info.title) = 0 THEN Threw(m)
        ELSE IF Len(info.title) > UINT16_MAX THEN Threw(m)
        ELSE IF info.data = <<>> \/ info.dataBytes = 0 THEN Threw(m)
        ELSE IF info.dataBytes > UINT32_MAX THEN Threw(m)
        ELSE Stored(m6)

SIZE_ICC_COLOR_PROFILE(color_profile) ==
    ICC_PROFILE.HEADER_SIZE + Len(color_profile)

\* The length of the profile is stored with STORE_U16 into the u32 field.
STORE_ICC_COLOR_PROFILE(m, offset, color_profile) ==
    LET m1 == STORE_U64(m,  offset + ICC_PROFILE.VALIDATION, offset)
        m2 == STORE_U16(m1, offset + ICC_PROFILE.RECOVERY, RECOVER_ICC_PROFILE)
        m3 == STORE_U16(m2, offset + ICC_PROFILE.ENTRY_NUMBER,
                        Len(color_profile) % U32_MOD)
        m4 == MemCpy(m3, offset + ICC_PROFILE.HEADER_SIZE, color_profile)
    IN  IF offset = NULL_OFFSET THEN Threw(m)
        ELSE IF Len(color_profile) > UINT32_MAX THEN Threw(m)
        ELSE Stored(m4)

\* The annotations the entry loop does not skip, in order, with a parent
\* beyond NULL_ID replaced by NULL_ID.
RECURSIVE AnnotationsKept(_, _)
AnnotationsKept(annotations, n) ==
    IF n = 0 THEN <<>>
    ELSE LET a == annotations[n]
             rest == AnnotationsKept(annotations, n - 1)
         IN  IF a.identifier >= NULL_ID THEN rest
             ELSE IF a.bytesOffset = NULL_OFFSET THEN rest
             ELSE IF a.type = AnnotationTypes.ANNOTATION_UNDEFINED THEN rest
             ELSE Append(rest,
                    [a EXCEPT !.parent =
                        IF a.parent > NULL_ID THEN NULL_ID ELSE a.parent])

RECURSIVE StoreAnnotationEntries(_, _, _, _)
StoreAnnotationEntries(m, ptr, kept, n) ==
    IF n = 0 THEN m
    ELSE LET at == ptr + (n - 1) * ANNOTATION_ENTRY.SIZE
             a  == kept[n]
             m0 == StoreAnnotationEntries(m, ptr, kept, n - 1)
             m1 == STORE_U24(m0, at + ANNOTATION_ENTRY.IDENTIFIER, a.identifier)
             m2 == STORE_U64(m1, at + ANNOTATION_ENTRY.BYTES_OFFSET,
                             a.bytesOffset)
             m3 == STORE_U8 (m2, at + ANNOTATION_ENTRY.FORMAT, a.type)
             m4 == STORE_F32(m3, at + ANNOTATION_ENTRY.X_LOCATION, a.xLocation)
             m5 == STORE_F32(m4, at + ANNOTATION_ENTRY.Y_LOCATION, a.yLocation)
             m6 == STORE_F32(m5, at + ANNOTATION_ENTRY.X_SIZE, a.xSize)
             m7 == STORE_F32(m6, at + ANNOTATION_ENTRY.Y_SIZE, a.ySize)
             m8 == STORE_U32(m7, at + ANNOTATION_ENTRY.WIDTH, a.width)
             m9 == STORE_U32(m8, at + ANNOTATION_ENTRY.HEIGHT, a.height)
         IN  STORE_U24(m9, at + ANNOTATION_ENTRY.PARENT, a.parent)

\* An annotation without an identifier is warned about and not counted.
RECURSIVE AnnotationsCounted(_, _)
AnnotationsCounted(annotations, n) ==
    IF n = 0 THEN 0
    ELSE AnnotationsCounted(annotations, n - 1)
            + (IF annotations[n].identifier = NULL_ID THEN 0 ELSE 1)

SIZE_ANNOTATION_ARRAY(info) ==
    ANNOTATIONS.HEADER_SIZE
        + ANNOTATION_ENTRY.SIZE
            * AnnotationsCounted(info.annotations, Len(info.annotations))

\* GROUP_SIZES_OFFSET and GROUP_BYTES_OFFSET of the header are never written.
STORE_ANNOTATION_ARRAY(m, info) ==
    LET ptr  == info.offset
        kept == AnnotationsKept(info.annotations, Len(info.annotations))
        m1 == STORE_U64(m,  ptr + ANNOTATIONS.VALIDATION, info.offset)
        m2 == STORE_U16(m1, ptr + ANNOTATIONS.RECOVERY, RECOVER_ANNOTATIONS)
        m3 == STORE_U16(m2, ptr + ANNOTATIONS.ENTRY_SIZE, ANNOTATION_ENTRY.SIZE)
        m4 == StoreAnnotationEntries(m3, ptr + ANNOTATIONS.HEADER_SIZE, kept,
                                     Len(kept))
        m5 == STORE_U32(m4, ptr + ANNOTATIONS.ENTRY_NUMBER, Len(kept))
    IN  IF info.offset = NULL_OFFSET THEN Threw(m)
        ELSE IF Len(info.annotations) > UINT32_MAX THEN Threw(m)
        ELSE Stored(m5)

SIZE_ANNOTATION_BYTES(annotation) ==
    ANNOTATION_BYTES.HEADER_SIZE + Len(annotation.data)

\* A STORE_ANNOTATION_BYTES that stamps the block with the image-bytes tag.
STORE_ANNOTATION_BYTES_image_tag(m, offset, annotation) ==
    LET bytes == annotation.data
        m1 == STORE_U64(m,  offset + ANNOTATION_BYTES.VALIDATION, offset)
        m2 == STORE_U16(m1, offset + ANNOTATION_BYTES.RECOVERY,
                        RECOVER_ASSOCIATED_IMAGE_BYTES)
        m3 == STORE_U32(m2, offset + ANNOTATION_BYTES.ENTRY_NUMBER, Len(bytes))
        m4 == MemCpy(m3, offset + IMAGE_BYTES.HEADER_SIZE, bytes)
    IN  IF offset = NULL_OFFSET THEN Threw(m)
        ELSE IF ~VALIDATE_ANNOTATION_TYPE(annotation.type) THEN Threw(m)
        ELSE IF Len(bytes) > UINT32_MAX THEN Threw(m)
        ELSE Stored(m4)

\* The payload is copied at IMAGE_BYTES::HEADER_SIZE from the block start.
STORE_ANNOTATION_BYTES(m, offset, annotation) ==
    LET bytes == annotation.data
        m1 == STORE_U64(m,  offset + ANNOTATION_BYTES.VALIDATION, offset)
        m2 == STORE_U16(m1, offset + ANNOTATION_BYTES.RECOVERY,
                        RECOVER_ANNOTATION_BYTES)
        m3 == STORE_U32(m2, offset + ANNOTATION_BYTES.ENTRY_NUMBER, Len(bytes))
        m4 == MemCpy(m3, offset + IMAGE_BYTES.HEADER_SIZE, bytes)
    IN  IF offset = NULL_OFFSET THEN Threw(m)
        ELSE IF ~VALIDATE_ANNOTATION_TYPE(annotation.type) THEN Threw(m)
        ELSE IF Len(bytes) > UINT32_MAX THEN Threw(m)
        ELSE Stored(m4)

\* ------------------------------------------------------ the layout planner
\* Offsets flow top-down from the caller: one slot per block, in file order.
TileTableAt       == FILE_HEADER.HEADER_SIZE + 2
ExtentsAt         == TileTableAt + TILE_TABLE.HEADER_SIZE
TilesAt           == ExtentsAt + LAYER_EXTENTS.HEADER_SIZE + 2 * LAYER_EXTENT.SIZE
MetadataAt        == TilesAt + TILE_OFFSETS.HEADER_SIZE + 3 * TILE_OFFSET.SIZE
AttributesAt      == MetadataAt + METADATA.HEADER_SIZE
SizesAt           == AttributesAt + ATTRIBUTES.HEADER_SIZE
BytesAt           == SizesAt + ATTRIBUTES_SIZES.HEADER_SIZE + 2 * ATTRIBUTE_SIZE.SIZE
ImagesAt          == BytesAt + ATTRIBUTES_BYTES.HEADER_SIZE + 8
ImageBytesAt      == ImagesAt + IMAGE_ARRAY.HEADER_SIZE + IMAGE_ENTRY.SIZE
ProfileAt         == ImageBytesAt + IMAGE_BYTES.HEADER_SIZE + 5
AnnotationsAt     == ProfileAt + ICC_PROFILE.HEADER_SIZE + 3
AnnotationBytesAt == AnnotationsAt + ANNOTATIONS.HEADER_SIZE + ANNOTATION_ENTRY.SIZE
PayloadAt         == AnnotationBytesAt + IMAGE_BYTES.HEADER_SIZE + 3

\* ----------------------------------------------------------------- inputs
Extent(x, y, scale) == [xTiles |-> x, yTiles |-> y, scale |-> scale]
Tile(offset, tsize) == [offset |-> offset, size |-> tsize]

OneLayer   == <<Extent(1, 1, U24_MOD)>>
TwoLayers  == <<Extent(1, 1, U24_MOD), Extent(2, 1, 2 * U24_MOD)>>
\* x_tiles * y_tiles = 2^32 on the real widths: the product wraps to 0.
WrapLayer  == <<Extent(U16_MOD, U16_MOD, U24_MOD)>>
ZeroLayer  == <<Extent(0, 1, U24_MOD)>>
FlatLayers == <<Extent(1, 1, U24_MOD), Extent(2, 1, U24_MOD)>>
ExtentsInputs == {OneLayer, TwoLayers, WrapLayer, ZeroLayer, FlatLayers, <<>>}

DenseTiles    == << <<Tile(PayloadAt, 8)>> >>
SparseTiles   == << <<Tile(NULL_TILE, 0)>> >>
\* The abstraction's sparse tile, as read_tile_offsets returns it.
AbstractTiles == << <<Tile(NULL_OFFSET, 0)>> >>
LargeTiles    == << <<Tile(PayloadAt, U24_MOD)>> >>
BeyondTiles   == << <<Tile(RegionSize - 4, 8)>> >>
ThreeTiles    == << <<Tile(PayloadAt, 8)>>,
                    <<Tile(PayloadAt + 8, 8), Tile(PayloadAt + 16, 8)>> >>
MixedTiles    == << <<Tile(PayloadAt, 8)>>,
                    <<Tile(NULL_TILE, 5), Tile(PayloadAt + 16, 8)>> >>
LateBadTiles  == << <<Tile(PayloadAt, 8)>>,
                    <<Tile(PayloadAt + 8, 8), Tile(NULL_OFFSET, 0)>> >>
LayersInputs ==
    {DenseTiles, SparseTiles, AbstractTiles, LargeTiles, BeyondTiles,
     ThreeTiles, MixedTiles, LateBadTiles, <<>>}

TileTableCI(encoding, format, tiles, extents) ==
    [tileTableOffset |-> TileTableAt, encoding |-> encoding, format |-> format,
     cipherOffset |-> NULL_OFFSET, tilesOffset |-> tiles,
     layerExtentsOffset |-> extents, widthPixels |-> 2 * U16_MOD,
     heightPixels |-> U16_MOD]
TileTableInputs ==
    {TileTableCI(Encoding.TILE_ENCODING_JPEG, Format.FORMAT_R8G8B8A8, TilesAt, ExtentsAt),
     TileTableCI(Encoding.TILE_ENCODING_IRIS, Format.FORMAT_UNDEFINED, TilesAt, ExtentsAt),
     TileTableCI(Encoding.TILE_ENCODING_UNDEFINED, Format.FORMAT_B8G8R8, TilesAt, ExtentsAt),
     TileTableCI(Encoding.TILE_ENCODING_AVIF, Format.FORMAT_R8G8B8A8 + 1, TilesAt, ExtentsAt),
     TileTableCI(Encoding.TILE_ENCODING_JPEG, Format.FORMAT_R8G8B8, ExtentsAt, TilesAt),
     [TileTableCI(Encoding.TILE_ENCODING_JPEG, Format.FORMAT_R8G8B8, TilesAt, ExtentsAt)
        EXCEPT !.tileTableOffset = NULL_OFFSET]}

MetadataCI(attributes, images, icc, annotations) ==
    [metadataOffset |-> MetadataAt,
     codecVersion |-> [major |-> 2, minor |-> 0, build |-> 3],
     attributes |-> attributes, images |-> images, ICC_profile |-> icc,
     annotations |-> annotations, micronsPerPixel |-> U24_MOD,
     magnification |-> 0]
MetadataInputs ==
    {MetadataCI(NULL_OFFSET, NULL_OFFSET, NULL_OFFSET, NULL_OFFSET),
     MetadataCI(AttributesAt, NULL_OFFSET, ProfileAt, NULL_OFFSET),
     MetadataCI(AttributesAt, ImagesAt, ProfileAt, AnnotationsAt),
     MetadataCI(NULL_OFFSET, AnnotationsAt, NULL_OFFSET, NULL_OFFSET),
     [MetadataCI(NULL_OFFSET, NULL_OFFSET, NULL_OFFSET, NULL_OFFSET)
        EXCEPT !.metadataOffset = NULL_OFFSET]}

HeaderCI(fileSize, table, metadata) ==
    [fileSize |-> fileSize, revision |-> 1, tileTableOffset |-> table,
     metadataOffset |-> metadata]
HeaderInputs ==
    {HeaderCI(RegionSize, TileTableAt, MetadataAt),
     HeaderCI(0, TileTableAt, MetadataAt),
     HeaderCI(RegionSize, MetadataAt, TileTableAt),
     HeaderCI(RegionSize, TileTableAt, NULL_OFFSET),
     HeaderCI(PayloadAt, TileTableAt, MetadataAt)}

Attribute(key, value) == [key |-> key, value |-> value]
AttributesOf(type, version, entries) ==
    [type |-> type, version |-> version, entries |-> entries]
TwoAttributes == <<Attribute(<<1, 2>>, <<3, 4>>), Attribute(<<5>>, <<6, 7, 0>>)>>
AttributesInputs ==
    {AttributesOf(MetadataType.METADATA_I2S, 0, TwoAttributes),
     AttributesOf(MetadataType.METADATA_DICOM, 3, <<Attribute(<<1, 2>>, <<3>>)>>),
     AttributesOf(MetadataType.METADATA_UNDEFINED, 0, TwoAttributes)}

AttributesCI(type, version, sizes, bytes) ==
    [attributesOffset |-> AttributesAt, type |-> type, version |-> version,
     sizes |-> sizes, bytes |-> bytes]
AttributesHeaderInputs ==
    {AttributesCI(MetadataType.METADATA_I2S, 0, SizesAt, BytesAt),
     AttributesCI(MetadataType.METADATA_DICOM, 0, SizesAt, BytesAt),
     AttributesCI(MetadataType.METADATA_DICOM, 3, SizesAt, BytesAt),
     AttributesCI(MetadataType.METADATA_UNDEFINED, 0, SizesAt, BytesAt),
     AttributesCI(MetadataType.METADATA_I2S, 0, BytesAt, SizesAt)}

ImageInfo(width, height, encoding, format) ==
    [width |-> width, height |-> height, encoding |-> encoding,
     sourceFormat |-> format, orientation |-> 3]
ImageEntry(offset, info) == [offset |-> offset, info |-> info]
GoodImage == ImageEntry(ImageBytesAt,
                 ImageInfo(4, 2, ImageEncoding.IMAGE_ENCODING_PNG, Format.FORMAT_R8G8B8))
ImagesInputs ==
    {[offset |-> ImagesAt, images |-> <<GoodImage>>],
     [offset |-> ImagesAt, images |-> <<ImageEntry(ImageBytesAt,
            ImageInfo(4, 0, ImageEncoding.IMAGE_ENCODING_PNG, Format.FORMAT_R8G8B8))>>],
     [offset |-> ImagesAt, images |-> <<ImageEntry(NULL_OFFSET,
            ImageInfo(4, 2, ImageEncoding.IMAGE_ENCODING_JPEG, Format.FORMAT_R8G8B8))>>],
     [offset |-> ImagesAt, images |-> <<ImageEntry(ImageBytesAt,
            ImageInfo(4, 2, ImageEncoding.IMAGE_ENCODING_UNDEFINED, Format.FORMAT_R8G8B8))>>],
     [offset |-> NULL_OFFSET, images |-> <<GoodImage>>]}

ImageBytesInputs ==
    {[offset |-> ImageBytesAt, title |-> <<1, 2>>, data |-> <<3, 4, 5>>,
      dataBytes |-> 3],
     [offset |-> ImageBytesAt, title |-> <<>>, data |-> <<3, 4, 5>>,
      dataBytes |-> 3],
     [offset |-> ImageBytesAt, title |-> <<1, 2>>, data |-> <<>>,
      dataBytes |-> 0],
     [offset |-> NULL_OFFSET, title |-> <<1, 2>>, data |-> <<3, 4, 5>>,
      dataBytes |-> 3]}

ProfileInputs == {<<>>, <<1, 2, 3>>}

Note(identifier, bytesOffset, type, parent) ==
    [identifier |-> identifier, bytesOffset |-> bytesOffset, type |-> type,
     xLocation |-> 1, yLocation |-> 2, xSize |-> 3, ySize |-> 4,
     width |-> 5, height |-> 6, parent |-> parent]
AnnotationsInputs ==
    {[offset |-> AnnotationsAt,
      annotations |-> <<Note(1, AnnotationBytesAt, AnnotationTypes.ANNOTATION_TEXT, NULL_ID)>>],
     [offset |-> AnnotationsAt,
      annotations |-> <<Note(NULL_ID, AnnotationBytesAt, AnnotationTypes.ANNOTATION_SVG, 0)>>],
     [offset |-> AnnotationsAt,
      annotations |-> <<Note(1, AnnotationBytesAt, AnnotationTypes.ANNOTATION_UNDEFINED,
                             NULL_ID + 1)>>],
     [offset |-> NULL_OFFSET,
      annotations |-> <<Note(1, AnnotationBytesAt, AnnotationTypes.ANNOTATION_TEXT, NULL_ID)>>]}

AnnotationDataInputs ==
    {[type |-> AnnotationTypes.ANNOTATION_TEXT, data |-> <<1, 2, 3>>],
     [type |-> AnnotationTypes.ANNOTATION_PNG, data |-> <<>>],
     [type |-> AnnotationTypes.ANNOTATION_UNDEFINED, data |-> <<1, 2, 3>>]}

\* ------------------------------------------------------------ writer calls
\* One call of a writer on the region: the writer's name, the offset of the
\* block it writes and its remaining argument.
Invoke(writer, offset, input) ==
    [writer |-> writer, offset |-> offset, input |-> input]

Call(m, c) ==
    CASE c.writer = "STORE_FILE_HEADER" -> STORE_FILE_HEADER(m, c.input)
      [] c.writer = "STORE_TILE_TABLE" -> STORE_TILE_TABLE(m, c.input)
      [] c.writer = "STORE_METADATA" -> STORE_METADATA(m, c.input)
      [] c.writer = "STORE_ATTRIBUTES" -> STORE_ATTRIBUTES(m, c.input)
      [] c.writer = "STORE_EXTENTS" -> STORE_EXTENTS(m, c.offset, c.input)
      [] c.writer = "STORE_TILE_OFFSETS" ->
            STORE_TILE_OFFSETS(m, c.offset, c.input)
      [] c.writer = "STORE_ATTRIBUTES_SIZES" ->
            STORE_ATTRIBUTES_SIZES(m, c.offset, c.input)
      [] c.writer = "STORE_ATTRIBUTES_BYTES" ->
            STORE_ATTRIBUTES_BYTES(m, c.offset, c.input)
      [] c.writer = "STORE_IMAGES_ARRAY" -> STORE_IMAGES_ARRAY(m, c.input)
      [] c.writer = "STORE_IMAGES_BYTES" -> STORE_IMAGES_BYTES(m, c.input)
      [] c.writer = "STORE_ICC_COLOR_PROFILE" ->
            STORE_ICC_COLOR_PROFILE(m, c.offset, c.input)
      [] c.writer = "STORE_ANNOTATION_ARRAY" ->
            STORE_ANNOTATION_ARRAY(m, c.input)
      [] c.writer = "STORE_ANNOTATION_BYTES" ->
            STORE_ANNOTATION_BYTES(m, c.offset, c.input)

\* A pass of calls in order; the first call that raises ends the pass.
RECURSIVE Encode(_, _, _)
Encode(m, calls, n) ==
    IF n = 0 THEN Stored(m)
    ELSE LET before == Encode(m, calls, n - 1)
         IN  IF before.raised THEN before ELSE Call(before.mem, calls[n])

\* --------------------------------------------------------- region images
RegionAddresses == 0 .. RegionSize - 1
Blank   == [a \in RegionAddresses |-> 0]
Garbage == [a \in RegionAddresses |-> ByteRadix - 1]

HeaderCall == Invoke("STORE_FILE_HEADER", HEADER_OFFSET,
                     HeaderCI(RegionSize, TileTableAt, MetadataAt))
PlainMetadata == MetadataCI(AttributesAt, NULL_OFFSET, ProfileAt, NULL_OFFSET)

\* An encoder's pass, leaves first: every block of a slide with the given
\* pyramid except the file header.
BlockCalls(extents, layers) ==
    <<Invoke("STORE_EXTENTS", ExtentsAt, extents),
      Invoke("STORE_TILE_OFFSETS", TilesAt, layers),
      Invoke("STORE_TILE_TABLE", TileTableAt,
             TileTableCI(Encoding.TILE_ENCODING_JPEG, Format.FORMAT_R8G8B8A8, TilesAt,
                         ExtentsAt)),
      Invoke("STORE_ATTRIBUTES_SIZES", SizesAt,
             AttributesOf(MetadataType.METADATA_I2S, 0, TwoAttributes)),
      Invoke("STORE_ATTRIBUTES_BYTES", BytesAt,
             AttributesOf(MetadataType.METADATA_I2S, 0, TwoAttributes)),
      Invoke("STORE_ATTRIBUTES", AttributesAt,
             AttributesCI(MetadataType.METADATA_I2S, 0, SizesAt, BytesAt)),
      Invoke("STORE_IMAGES_BYTES", ImageBytesAt,
             [offset |-> ImageBytesAt, title |-> <<1, 2>>,
              data |-> <<3, 4, 5>>, dataBytes |-> 3]),
      Invoke("STORE_IMAGES_ARRAY", ImagesAt,
             [offset |-> ImagesAt, images |-> <<GoodImage>>]),
      Invoke("STORE_ICC_COLOR_PROFILE", ProfileAt, <<1, 2, 3>>),
      Invoke("STORE_ANNOTATION_BYTES", AnnotationBytesAt,
             [type |-> AnnotationTypes.ANNOTATION_TEXT, data |-> <<1, 2, 3>>]),
      Invoke("STORE_ANNOTATION_ARRAY", AnnotationsAt,
             [offset |-> AnnotationsAt,
              annotations |-> <<Note(1, AnnotationBytesAt, AnnotationTypes.ANNOTATION_TEXT,
                                     NULL_ID)>>]),
      Invoke("STORE_METADATA", MetadataAt, PlainMetadata)>>

EncodeBlocks(extents, layers) ==
    Encode(Blank, BlockCalls(extents, layers), Len(BlockCalls(extents, layers)))
\* The pass completed by the file header.
EncodeFile(extents, layers) ==
    Encode(EncodeBlocks(extents, layers).mem, <<HeaderCall>>, 1)

BlocksOnly  == EncodeBlocks(OneLayer, DenseTiles).mem
DenseFile   == EncodeFile(OneLayer, DenseTiles).mem
PyramidFile == EncodeFile(TwoLayers, ThreeTiles).mem
\* Slides whose tiles were rewritten in place after the header was stored.
SparseFile  == STORE_TILE_OFFSETS(DenseFile, TilesAt, SparseTiles).mem
MixedFile   == STORE_TILE_OFFSETS(PyramidFile, TilesAt, MixedTiles).mem

\* The regions a run starts from: the five above, each slide encoded once,
\* and two regions no encoder wrote.
Slides ==
    {[extents |-> OneLayer, layers |-> DenseTiles, rewritten |-> SparseTiles,
      headerless |-> TRUE],
     [extents |-> TwoLayers, layers |-> ThreeTiles, rewritten |-> MixedTiles,
      headerless |-> FALSE]}
SlideImages(s) ==
    UNION {(IF s.headerless THEN {b.mem} ELSE {}) \cup
           UNION {{f.mem, STORE_TILE_OFFSETS(f.mem, TilesAt, s.rewritten).mem}
                    : f \in {Encode(b.mem, <<HeaderCall>>, 1)}}
             : b \in {EncodeBlocks(s.extents, s.layers)}}
Images == {Blank, Garbage} \cup UNION {SlideImages(s) : s \in Slides}

\* ------------------------------------------------------------------ state
\* mem   the mapped region, one digit per byte
\* oob   what a load outside the region yields (undefined behaviour)
\* pre   the region before the last call
\* op    the last call: [writer, offset, input]
\* out   what the last call returned, or that it raised
\* steps the number of writer calls so far
\* log   the writer calls (in the remote backend: the range requests) so
\*       far, in order
\* response  the response cache of each remote block reader
NoCall == Invoke("none", NULL_OFFSET, <<>>)
NoOut  == [raised |-> FALSE]
\* Response __response = NULL
nullptr == [fetched |-> FALSE]
NoResponses == [TILE_TABLE |-> nullptr, TILE_OFFSETS |-> nullptr]

Init ==
    /\ mem \in Images
    /\ oob \in {0, ByteRadix - 1}
    /\ pre = mem
    /\ op = NoCall
    /\ out = NoOut
    /\ steps = 0
    /\ log = <<>>
    /\ response = NoResponses

\* One call c of a writer on the region, stored being what it returned.
Store(c, stored) ==
    /\ \E r \in {stored} :
        /\ mem' = r.mem
        /\ out' = [raised |-> r.raised]
    /\ pre' = mem
    /\ op' = c
    /\ steps' = steps + 1
    /\ log' = Append(log, c)
    /\ UNCHANGED <<oob, response>>

StoreFileHeader ==
    /\ steps < MaxSteps
    /\ \E CI \in HeaderInputs :
            Store(Invoke("STORE_FILE_HEADER", HEADER_OFFSET, CI),
                  STORE_FILE_HEADER(mem, CI))
StoreTileTable ==
    /\ steps < MaxSteps
    /\ \E CI \in TileTableInputs :
            Store(Invoke("STORE_TILE_TABLE", CI.tileTableOffset, CI),
                  STORE_TILE_TABLE(mem, CI))
StoreMetadata ==
    /\ steps < MaxSteps
    /\ \E CI \in MetadataInputs :
            Store(Invoke("STORE_METADATA", CI.metadataOffset, CI),
                  STORE_METADATA(mem, CI))
StoreAttributes ==
    /\ steps < MaxSteps
    /\ \E info \in AttributesHeaderInputs :
            Store(Invoke("STORE_ATTRIBUTES", info.attributesOffset, info),
                  STORE_ATTRIBUTES(mem, info))
StoreExtents ==
    /\ steps < MaxSteps
    /\ \E extents \in ExtentsInputs :
            Store(Invoke("STORE_EXTENTS", ExtentsAt, extents),
                  STORE_EXTENTS(mem, ExtentsAt, extents))
StoreTileOffsets ==
    /\ steps < MaxSteps
    /\ \E layers \in LayersInputs :
            Store(Invoke("STORE_TILE_OFFSETS", TilesAt, layers),
                  STORE_TILE_OFFSETS(mem, TilesAt, layers))
StoreAttributesSizes ==
    /\ steps < MaxSteps
    /\ \E attributes \in AttributesInputs :
            Store(Invoke("STORE_ATTRIBUTES_SIZES", SizesAt, attributes),
                  STORE_ATTRIBUTES_SIZES(mem, SizesAt, attributes))
StoreAttributesBytes ==
    /\ steps < MaxSteps
    /\ \E attributes \in AttributesInputs :
            Store(Invoke("STORE_ATTRIBUTES_BYTES", BytesAt, attributes),
                  STORE_ATTRIBUTES_BYTES(mem, BytesAt, attributes))
StoreImagesArray ==
    /\ steps < MaxSteps
    /\ \E info \in ImagesInputs :
            Store(Invoke("STORE_IMAGES_ARRAY", info.offset, info),
                  STORE_IMAGES_ARRAY(mem, info))
StoreImagesBytes ==
    /\ steps < MaxSteps
    /\ \E info \in ImageBytesInputs :
            Store(Invoke("STORE_IMAGES_BYTES", info.offset, info),
                  STORE_IMAGES_BYTES(mem, info))
StoreIccColorProfile ==
    /\ steps < MaxSteps
    /\ \E profile \in ProfileInputs :
            Store(Invoke("STORE_ICC_COLOR_PROFILE", ProfileAt, profile),
                  STORE_ICC_COLOR_PROFILE(mem, ProfileAt, profile))
StoreAnnotationArray ==
    /\ steps < MaxSteps
    /\ \E info \in AnnotationsInputs :
            Store(Invoke("STORE_ANNOTATION_ARRAY", info.offset, info),
                  STORE_ANNOTATION_ARRAY(mem, info))
StoreAnnotationBytes ==
    /\ steps < MaxSteps
    /\ \E annotation \in AnnotationDataInputs :
            Store(Invoke("STORE_ANNOTATION_BYTES", AnnotationBytesAt, annotation),
                  STORE_ANNOTATION_BYTES(mem, AnnotationBytesAt, annotation))

\* The abstraction of the tile offsets of the region: the layer extents read
\* from their slot, then read_tile_offsets over them.
AbstractTileOffsets(m) ==
    LET extents == LAYER_EXTENTS_read_layer_extents(m, ExtentsAt, RegionSize)
    IN  IF extents.raised THEN extents
        ELSE TILE_OFFSETS_read_tile_offsets(m, TilesAt, RegionSize,
                                            extents.value)

\* abstract -> store: the layers read back from the region are stored again.
RestoreTileOffsets ==
    /\ steps < MaxSteps
    /\ \E table \in {AbstractTileOffsets(mem)} :
        /\ ~table.raised
        /\ Store(Invoke("STORE_TILE_OFFSETS", TilesAt, table.value),
                 STORE_TILE_OFFSETS(mem, TilesAt, table.value))

Next ==
    \/ StoreFileHeader
    \/ StoreTileTable
    \/ StoreMetadata
    \/ StoreAttributes
    \/ StoreExtents
    \/ StoreTileOffsets
    \/ StoreAttributesSizes
    \/ StoreAttributesBytes
    \/ StoreImagesArray
    \/ StoreImagesBytes
    \/ StoreIccColorProfile
    \/ StoreAnnotationArray
    \/ StoreAnnotationBytes
    \/ RestoreTileOffsets

Spec == Init /\ [][Next]_vars

\* ------------------------------------------------------------ the readers
\* A file as a reader may find it: an image, possibly with one field
\* overwritten behind the encoder's back.
Patch(at, width, value) == [at |-> at, width |-> width, value |-> value]
Patched(m, d) == MemCpy(m, d.at, LEBytes(d.value, d.width))

FirstExtent == ExtentsAt + LAYER_EXTENTS.HEADER_SIZE
FirstTile   == TilesAt + TILE_OFFSETS.HEADER_SIZE

HeaderPatches ==
    {Patch(FILE_HEADER.MAGIC_BYTES_OFFSET, 4, MAGIC_BYTES - 1),
     Patch(FILE_HEADER.RECOVERY, 2, RECOVER_TILE_TABLE),
     Patch(FILE_HEADER.FILE_SIZE, 8, RegionSize + 1),
     Patch(FILE_HEADER.FILE_SIZE, 8, RegionSize - 1),
     Patch(FILE_HEADER.EXTENSION_MAJOR, 2, IRIS_EXTENSION_MAJOR + 1),
     Patch(FILE_HEADER.EXTENSION_MAJOR, 2, 0),
     Patch(FILE_HEADER.EXTENSION_MINOR, 2, IRIS_EXTENSION_MINOR + 1),
     Patch(FILE_HEADER.TILE_TABLE_OFFSET, 8, NULL_OFFSET),
     Patch(FILE_HEADER.TILE_TABLE_OFFSET, 8, MetadataAt),
     Patch(FILE_HEADER.TILE_TABLE_OFFSET, 8, RegionSize),
     Patch(FILE_HEADER.METADATA_OFFSET, 8, NULL_OFFSET),
     Patch(FILE_HEADER.METADATA_OFFSET, 8, TileTableAt)}

TileTablePatches ==
    {Patch(TileTableAt + TILE_TABLE.VALIDATION, 8, 0),
     Patch(TileTableAt + TILE_TABLE.VALIDATION, 8, MetadataAt),
     Patch(TileTableAt + TILE_TABLE.RECOVERY, 2, RECOVER_METADATA),
     Patch(TileTableAt + TILE_TABLE.ENCODING, 1, Encoding.TILE_ENCODING_UNDEFINED),
     Patch(TileTableAt + TILE_TABLE.FORMAT, 1, Format.FORMAT_UNDEFINED),
     Patch(TileTableAt + TILE_TABLE.TILE_OFFSETS_OFFSET, 8, ExtentsAt),
     Patch(TileTableAt + TILE_TABLE.LAYER_EXTENTS_OFFSET, 8, NULL_OFFSET),
     Patch(ExtentsAt + LAYER_EXTENTS.ENTRY_NUMBER, 4, 0),
     Patch(FirstExtent + LAYER_EXTENT.X_TILES, 4, 0),
     Patch(FirstExtent + LAYER_EXTENT.X_TILES, 4, 2),
     Patch(FirstExtent + LAYER_EXTENT.SCALE, 4, 0),
     Patch(TilesAt + TILE_OFFSETS.VALIDATION, 8, 0),
     Patch(TilesAt + TILE_OFFSETS.RECOVERY, 2, RECOVER_LAYER_EXTENTS),
     Patch(TilesAt + TILE_OFFSETS.ENTRY_NUMBER, 4, 0),
     Patch(TilesAt + TILE_OFFSETS.ENTRY_NUMBER, 4, 2),
     Patch(TilesAt + TILE_OFFSETS.ENTRY_SIZE, 2, 0),
     Patch(FirstTile + TILE_OFFSET.OFFSET, 5, NULL_TILE),
     Patch(FirstTile + TILE_OFFSET.OFFSET, 5, RegionSize),
     Patch(FirstTile + TILE_OFFSET.TILE_SIZE, 3, UINT24_MAX)}

MetadataPatches ==
    {Patch(MetadataAt + METADATA.VALIDATION, 8, 0),
     Patch(MetadataAt + METADATA.RECOVERY, 2, RECOVER_TILE_TABLE),
     Patch(MetadataAt + METADATA.ATTRIBUTES_OFFSET, 8, ProfileAt),
     Patch(MetadataAt + METADATA.ICC_COLOR_OFFSET, 8, RegionSize)}

Patches == HeaderPatches \cup TileTablePatches \cup MetadataPatches

Files == UNION {{m} \cup {Patched(m, d) : d \in Patches} : m \in Images}

ReadInit ==
    /\ mem \in Files
    /\ oob \in {0, ByteRadix - 1}
    /\ pre = mem
    /\ op = NoCall
    /\ out = NoOut
    /\ steps = 0
    /\ log = <<>>
    /\ response = NoResponses

\* A reader leaves the region as it is; each file is read by one call.
Read(c, result) ==
    /\ op' = c
    /\ out' = result
    /\ UNCHANGED <<mem, oob, pre, steps, log, response>>

BlockKinds ==
    {[type |-> "TILE_TABLE", recovery |-> RECOVER_TILE_TABLE],
     [type |-> "TILE_OFFSETS", recovery |-> RECOVER_TILE_OFFSETS],
     [type |-> "METADATA", recovery |-> RECOVER_METADATA]}
OffsetInputs ==
    {NULL_OFFSET, RegionSize, TileTableAt, TilesAt, MetadataAt, TileTableAt + 1}

ValidateFileStructure ==
    /\ op = NoCall
    /\ Read(Invoke("validate_file_structure", HEADER_OFFSET, RegionSize),
            validate_file_structure(mem, RegionSize))
ValidateHeader ==
    /\ op = NoCall
    /\ Read(Invoke("validate_header", HEADER_OFFSET, RegionSize),
            FILE_HEADER_validate_header(mem, RegionSize))
ValidateOffset ==
    /\ op = NoCall
    /\ \E offset \in OffsetInputs, kind \in BlockKinds :
            Read(Invoke("validate_offset", offset, kind),
                 DATA_BLOCK_validate_offset(mem, offset, RegionSize, kind.type,
                                            kind.recovery))
ValidateTileOffsets ==
    /\ op = NoCall
    /\ Read(Invoke("TILE_OFFSETS::validate_full", TilesAt, RegionSize),
            TILE_OFFSETS_validate_full(mem, TilesAt, RegionSize))
ReadTileOffsets ==
    /\ op = NoCall
    /\ \E extents \in ExtentsInputs :
            Read(Invoke("read_tile_offsets", TilesAt, extents),
                 TILE_OFFSETS_read_tile_offsets(mem, TilesAt, RegionSize,
                                                extents))
ReadTileTable ==
    /\ op = NoCall
    /\ Read(Invoke("read_tile_table", TileTableAt, RegionSize),
            TILE_TABLE_read_tile_table(mem, TileTableAt, RegionSize))

ReadNext ==
    \/ ValidateFileStructure
    \/ ValidateHeader
    \/ ValidateOffset
    \/ ValidateTileOffsets
    \/ ReadTileOffsets
    \/ ReadTileTable

ReadSpec == ReadInit /\ [][ReadNext]_vars

\* ------------------------------------------------- the metadata readers
\* Slides whose metadata block links its children, as an encoder leaves them
\* and as a reader may find them.
ImagesMetadata == MetadataCI(AttributesAt, ImagesAt, ProfileAt, NULL_OFFSET)
NotesMetadata  == MetadataCI(AttributesAt, NULL_OFFSET, ProfileAt, AnnotationsAt)
FullMetadata   == MetadataCI(AttributesAt, ImagesAt, ProfileAt, AnnotationsAt)

\* An array of two annotations ends where their shared byte block starts.
NotesBytesAt == AnnotationsAt + ANNOTATIONS.HEADER_SIZE
                    + 2 * ANNOTATION_ENTRY.SIZE
\* Two annotations stored under the one identifier 0x000123 (= 291).
TwinNotes ==
    <<Note(291, NotesBytesAt, AnnotationTypes.ANNOTATION_TEXT, NULL_ID),
      Note(291, NotesBytesAt, AnnotationTypes.ANNOTATION_SVG, NULL_ID)>>

Relinked(m, CI) == STORE_METADATA(m, CI).mem
Annotated(m, bytesAt, notes) ==
    STORE_ANNOTATION_ARRAY(
        STORE_ANNOTATION_BYTES(m, bytesAt,
                               [type |-> AnnotationTypes.ANNOTATION_TEXT,
                                data |-> <<1, 2, 3>>]).mem,
        [offset |-> AnnotationsAt, annotations |-> notes]).mem
\* The two group offsets of the annotations header, which no writer stores.
Grouped(m, sizes, bytes) ==
    Patched(Patched(m, Patch(AnnotationsAt + ANNOTATIONS.GROUP_SIZES_OFFSET,
                             8, sizes)),
            Patch(AnnotationsAt + ANNOTATIONS.GROUP_BYTES_OFFSET, 8, bytes))

\* The files below derive from one slide m, the dense slide of the encoder.
ImagesFile(m)  == Relinked(m, ImagesMetadata)
NotesFile(m)   == Relinked(m, NotesMetadata)
FullFile(m)    == Relinked(m, FullMetadata)
TwinFile(m)    ==
    Relinked(Grouped(Annotated(m, NotesBytesAt, TwinNotes),
                     NULL_OFFSET, NULL_OFFSET), NotesMetadata)
NoNotesFile(m) ==
    Relinked(Grouped(Annotated(m, AnnotationBytesAt, <<>>),
                     NULL_OFFSET, NULL_OFFSET), NotesMetadata)

\* An associated image whose declared byte count passes the end of the
\* file, and one whose title is empty.
LongImageFile(m) ==
    Patched(ImagesFile(m),
            Patch(ImageBytesAt + IMAGE_BYTES.IMAGE_SIZE, 4, RegionSize))
UntitledFile(m)  ==
    Patched(ImagesFile(m), Patch(ImageBytesAt + IMAGE_BYTES.TITLE_SIZE, 2, 0))

\* The two layers of the pyramid with one field of an extent overwritten.
SecondExtent == FirstExtent + LAYER_EXTENT.SIZE
ExtentsPatches ==
    {Patch(SecondExtent + LAYER_EXTENT.SCALE, 4, U24_MOD),
     Patch(SecondExtent + LAYER_EXTENT.SCALE, 4, U24_MOD - 1),
     Patch(SecondExtent + LAYER_EXTENT.SCALE, 4, F32_SIGN + 2 * U24_MOD),
     Patch(SecondExtent + LAYER_EXTENT.SCALE, 4, F32_INF + 1),
     Patch(SecondExtent + LAYER_EXTENT.X_TILES, 4, 0),
     Patch(SecondExtent + LAYER_EXTENT.Y_TILES, 4, 0),
     Patch(FirstExtent + LAYER_EXTENT.SCALE, 4, 0),
     Patch(FirstExtent + LAYER_EXTENT.SCALE, 4, F32_SIGN),
     Patch(FirstExtent + LAYER_EXTENT.Y_TILES, 4, 0),
     Patch(ExtentsAt + LAYER_EXTENTS.ENTRY_NUMBER, 4, 0),
     Patch(ExtentsAt + LAYER_EXTENTS.ENTRY_NUMBER, 4, RegionSize),
     Patch(ExtentsAt + LAYER_EXTENTS.RECOVERY, 2, RECOVER_TILE_OFFSETS)}

\* The attributes of the slide (two entries, eight bytes) with one field of
\* their three blocks overwritten.
FirstSize == SizesAt + ATTRIBUTES_SIZES.HEADER_SIZE
AttributesPatches ==
    {Patch(BytesAt + ATTRIBUTES_BYTES.ENTRY_NUMBER, 4, 7),
     Patch(BytesAt + ATTRIBUTES_BYTES.ENTRY_NUMBER, 4, 9),
     Patch(BytesAt + ATTRIBUTES_BYTES.ENTRY_NUMBER, 4, 0),
     Patch(FirstSize + ATTRIBUTE_SIZE.VALUE_SIZE, 4, 3),
     Patch(FirstSize + ATTRIBUTE_SIZE.KEY_SIZE, 2, 0),
     Patch(SizesAt + ATTRIBUTES_SIZES.ENTRY_NUMBER, 4, 0),
     Patch(SizesAt + ATTRIBUTES_SIZES.ENTRY_NUMBER, 4, 1),
     Patch(AttributesAt + ATTRIBUTES.FORMAT, 1, MetadataType.METADATA_DICOM),
     Patch(AttributesAt + ATTRIBUTES.FORMAT, 1,
           MetadataType.METADATA_UNDEFINED),
     Patch(AttributesAt + ATTRIBUTES.VERSION, 2, 3)}
\* No attribute at all: no sizes entry and no byte.
EmptyAttributesFile(m) ==
    Patched(Patched(m,
                    Patch(SizesAt + ATTRIBUTES_SIZES.ENTRY_NUMBER, 4, 0)),
            Patch(BytesAt + ATTRIBUTES_BYTES.ENTRY_NUMBER, 4, 0))
\* Sizes and byte count agree on a total that passes the end of the file.
LongAttributesFile(m) ==
    Patched(Patched(m,
                    Patch(FirstSize + ATTRIBUTE_SIZE.VALUE_SIZE, 4,
                          RegionSize)),
            Patch(BytesAt + ATTRIBUTES_BYTES.ENTRY_NUMBER, 4, RegionSize + 6))
\* DICOM attributes with the version year 3.
DicomFile(m) ==
    Patched(Patched(m,
                    Patch(AttributesAt + ATTRIBUTES.FORMAT, 1,
                          MetadataType.METADATA_DICOM)),
            Patch(AttributesAt + ATTRIBUTES.VERSION, 2, 3))

\* Annotation groups. No writer stores them: the group sizes block (one
\* group) and the group bytes block follow an annotations array without
\* entries, and the annotation bytes follow them.
GroupSizesAt == AnnotationsAt + ANNOTATIONS.HEADER_SIZE
GroupBytesAt == GroupSizesAt + ANNOTATION_GROUP_SIZES.HEADER_SIZE
                    + ANNOTATION_GROUP_SIZE.SIZE
GroupNotesBytesAt == GroupBytesAt + ANNOTATION_GROUP_BYTES.HEADER_SIZE + 5
RECURSIVE PatchedAll(_, _, _)
PatchedAll(m, patches, n) ==
    IF n = 0 THEN m
    ELSE Patched(PatchedAll(m, patches, n - 1), patches[n])
\* One group of a label of label_size bytes and of members annotations,
\* in front of a group bytes block declaring bytes bytes.
GroupBlocks(label_size, members, bytes) ==
    <<Patch(GroupSizesAt + ANNOTATION_GROUP_SIZES.VALIDATION, 8, GroupSizesAt),
      Patch(GroupSizesAt + ANNOTATION_GROUP_SIZES.RECOVERY, 2,
            RECOVER_ANNOTATION_GROUP_SIZES),
      Patch(GroupSizesAt + ANNOTATION_GROUP_SIZES.ENTRY_SIZE, 2,
            ANNOTATION_GROUP_SIZE.SIZE),
      Patch(GroupSizesAt + ANNOTATION_GROUP_SIZES.ENTRY_NUMBER, 4, 1),
      Patch(GroupSizesAt + ANNOTATION_GROUP_SIZES.HEADER_SIZE
                + ANNOTATION_GROUP_SIZE.LABEL_SIZE, 2, label_size),
      Patch(GroupSizesAt + ANNOTATION_GROUP_SIZES.HEADER_SIZE
                + ANNOTATION_GROUP_SIZE.ENTRIES_NUMBER, 4, members),
      Patch(GroupBytesAt + ANNOTATION_GROUP_BYTES.VALIDATION, 8, GroupBytesAt),
      Patch(GroupBytesAt + ANNOTATION_GROUP_BYTES.RECOVERY, 2,
            RECOVER_ANNOTATION_GROUP_BYTES),
      Patch(GroupBytesAt + ANNOTATION_GROUP_BYTES.ENTRY_NUMBER, 4, bytes)>>
WithGroup(m, label_size, members, bytes) ==
    PatchedAll(m, GroupBlocks(label_size, members, bytes), 9)
GroupFile(m, label_size, members, bytes, sizesOffset, bytesOffset) ==
    Relinked(Grouped(WithGroup(Annotated(m, GroupNotesBytesAt, <<>>),
                               label_size, members, bytes),
                     sizesOffset, bytesOffset), NotesMetadata)
\* A group of 2 + 1 * 3 bytes: declared as 5 bytes, declared as 4 bytes,
\* and named by one of the two offsets only.
GroupedFile(m)    == GroupFile(m, 2, 1, 5, GroupSizesAt, GroupBytesAt)
MisgroupedFile(m) == GroupFile(m, 2, 1, 4, GroupSizesAt, GroupBytesAt)
SizesOnlyFile(m)  == GroupFile(m, 2, 1, 5, GroupSizesAt, NULL_OFFSET)
BytesOnlyFile(m)  == GroupFile(m, 2, 1, 5, NULL_OFFSET, GroupBytesAt)

DenseFiles(m) ==
    {m, ImagesFile(m), NotesFile(m), FullFile(m), TwinFile(m), NoNotesFile(m),
     LongImageFile(m), UntitledFile(m), EmptyAttributesFile(m),
     LongAttributesFile(m), DicomFile(m), GroupedFile(m), MisgroupedFile(m),
     SizesOnlyFile(m), BytesOnlyFile(m)}
        \cup {Patched(m, d) : d \in AttributesPatches}
PyramidFiles(m) == {m} \cup {Patched(m, d) : d \in ExtentsPatches}
MetaFiles ==
    UNION ({DenseFiles(m) : m \in {DenseFile}}
            \cup {PyramidFiles(m) : m \in {PyramidFile}})

MetaInit ==
    /\ mem \in MetaFiles
    /\ oob \in {0, ByteRadix - 1}
    /\ pre = mem
    /\ op = NoCall
    /\ out = NoOut
    /\ steps = 0
    /\ log = <<>>
    /\ response = NoResponses

ReadAnnotations ==
    /\ op = NoCall
    /\ Read(Invoke("read_annotations", AnnotationsAt, RegionSize),
            ANNOTATIONS_read_annotations(mem, AnnotationsAt, RegionSize))
ValidateMetadata ==
    /\ op = NoCall
    /\ Read(Invoke("METADATA::validate_full", MetadataAt, RegionSize),
            METADATA_validate_full(mem, MetadataAt, RegionSize))

GenerateFileMap ==
    /\ op = NoCall
    /\ Read(Invoke("generate_file_map", HEADER_OFFSET, RegionSize),
            generate_file_map(mem, RegionSize))
AbstractFileStructure ==
    /\ op = NoCall
    /\ Read(Invoke("abstract_file_structure", HEADER_OFFSET, RegionSize),
            abstract_file_structure(mem, RegionSize))
ValidateImages ==
    /\ op = NoCall
    /\ Read(Invoke("IMAGE_ARRAY::validate_full", ImagesAt, RegionSize),
            IMAGE_ARRAY_validate_full(mem, ImagesAt, RegionSize))

ValidateExtents ==
    /\ op = NoCall
    /\ Read(Invoke("LAYER_EXTENTS::validate_full", ExtentsAt, RegionSize),
            LAYER_EXTENTS_validate_full(mem, ExtentsAt, RegionSize))

ValidateAttributes ==
    /\ op = NoCall
    /\ Read(Invoke("ATTRIBUTES::validate_full", AttributesAt, RegionSize),
            ATTRIBUTES_validate_full(mem, AttributesAt, RegionSize))

ValidateAnnotations ==
    /\ op = NoCall
    /\ Read(Invoke("ANNOTATIONS::validate_full", AnnotationsAt, RegionSize),
            ANNOTATIONS_validate_full(mem, AnnotationsAt, RegionSize))

MetaNext ==
    \/ StoreAttributes
    \/ ValidateAnnotations
    \/ ValidateAttributes
    \/ ValidateExtents
    \/ ReadAnnotations
    \/ ValidateMetadata
    \/ ValidateFileStructure
    \/ ValidateImages
    \/ GenerateFileMap
    \/ AbstractFileStructure

MetaSpec == MetaInit /\ [][MetaNext]_vars

\* ------------------------------------------------- the attributes encoder
\* An encoder stores the attributes of a slide leaves first: the sizes block,
\* the bytes block, then the header that names both; a reader follows. The
\* region it starts from is blank or holds what an earlier use left there.
AttributeMaps ==
    {AttributesOf(MetadataType.METADATA_I2S, 0, <<>>),
     AttributesOf(MetadataType.METADATA_I2S, 0, TwoAttributes),
     AttributesOf(MetadataType.METADATA_I2S, 0,
                  <<Attribute(<<5>>, <<6, 7, 0>>), Attribute(<<1, 2>>, <<3, 4>>)>>),
     AttributesOf(MetadataType.METADATA_I2S, 0,
                  <<Attribute(<<1>>, <<>>), Attribute(<<1, 2>>, <<2, 1>>)>>),
     AttributesOf(MetadataType.METADATA_I2S, 0, <<Attribute(<<>>, <<2>>)>>),
     AttributesOf(MetadataType.METADATA_DICOM, 3, <<Attribute(<<1, 2>>, <<3>>)>>),
     AttributesOf(MetadataType.METADATA_UNDEFINED, 0, TwoAttributes)}

EncoderInit ==
    /\ mem \in {Blank, Garbage}
    /\ oob \in {0, ByteRadix - 1}
    /\ pre = mem
    /\ op = NoCall
    /\ out = NoOut
    /\ steps = 0
    /\ log = <<>>
    /\ response = NoResponses

EncodeAttributesSizes ==
    /\ log = <<>>
    /\ \E attributes \in AttributeMaps :
            Store(Invoke("STORE_ATTRIBUTES_SIZES", SizesAt, attributes),
                  STORE_ATTRIBUTES_SIZES(mem, SizesAt, attributes))
EncodeAttributesBytes ==
    /\ Len(log) = 1
    /\ ~out.raised
    /\ \E attributes \in AttributeMaps :
            Store(Invoke("STORE_ATTRIBUTES_BYTES", BytesAt, attributes),
                  STORE_ATTRIBUTES_BYTES(mem, BytesAt, attributes))
EncodeAttributes ==
    /\ Len(log) = 2
    /\ ~out.raised
    /\ \E info \in AttributesHeaderInputs :
            Store(Invoke("STORE_ATTRIBUTES", info.attributesOffset, info),
                  STORE_ATTRIBUTES(mem, info))
ReadAttributes ==
    /\ Len(log) = 3
    /\ op.writer = "STORE_ATTRIBUTES"
    /\ ~out.raised
    /\ Read(Invoke("read_attributes", AttributesAt, RegionSize),
            ATTRIBUTES_read_attributes(mem, AttributesAt, RegionSize))

EncoderNext ==
    \/ EncodeAttributesSizes
    \/ EncodeAttributesBytes
    \/ EncodeAttributes
    \/ ReadAttributes

EncoderSpec == EncoderInit /\ [][EncoderNext]_vars

\* ------------------------------------------------------ the remote backend
\* In the WebAssembly build the region is the file behind a URL.  A block
\* reader holds the remote offset of its block and a response cache; every
\* method starts with check_and_fetch_remote.
MaxFetches == 3
MaxReads == 2

\* What fetch_data_async hands back: the HTTP status, and a payload only for
\* an ok status whose buffer could be allocated.
Answers ==
    {[status |-> 206, payload |-> TRUE], [status |-> 206, payload |-> FALSE],
     [status |-> 200, payload |-> TRUE], [status |-> 404, payload |-> FALSE],
     [status |-> 0, payload |-> FALSE]}
\* The answers of the network to the requests of one read, in order; past
\* MaxFetches the network has recovered.
Answer(answers, k) ==
    IF k <= MaxFetches THEN answers[k] ELSE [status |-> 206, payload |-> TRUE]

\* The Range header "bytes=start-(start+len-1)".
Range(start, len) == [start |-> start, end |-> start + len - 1]

FETCH_DATABLOCK(start, len, answer) ==
    IF answer.payload /\ answer.status = 206
    THEN [fetched |-> TRUE, remote |-> start, len |-> len]
    ELSE nullptr

\* __response->data: the bytes behind the base pointer of a reader, each at
\* its remote address.  Behind a null response lies no byte of the file:
\* the dereference is undefined and every load through it yields oob.
ResponseData(m, r) ==
    IF r.fetched
    THEN [a \in (r.remote .. r.remote + r.len - 1) \cap DOMAIN m |-> m[a]]
    ELSE <<>>

\* The readers of fixed size: one fetch of the header.
TILE_TABLE_check_and_fetch_remote(r, remote, answers) ==
    IF r.fetched
    THEN [response |-> r, requests |-> <<>>]
    ELSE [response |-> FETCH_DATABLOCK(remote, TILE_TABLE.HEADER_SIZE,
                                       Answer(answers, 1)),
          requests |-> <<Range(remote, TILE_TABLE.HEADER_SIZE)>>]

\* DATA_BLOCK::validate_offset of the remote build: __offset is __ptr_size,
\* the 4 bytes of the URL pointer in front of the payload (wasm32), and
\* VALIDATION is compared with __remote.
DATA_BLOCK_validate_offset_remote(data, remote, size, type, recovery) ==
    IF ~DATA_BLOCK_bool(4, size)
    THEN Result(IRIS_VALIDATION_FAILURE, <<type, "invalid offset">>)
    ELSE IF LOAD_U64(data, remote + DATA_BLOCK.VALIDATION) # remote
    THEN Result(IRIS_VALIDATION_FAILURE, <<type, "offset validation">>)
    ELSE IF LOAD_U16(data, remote + DATA_BLOCK.RECOVERY) # recovery
    THEN Result(IRIS_VALIDATION_FAILURE, <<type, "recovery tag">>)
    ELSE Success

\* TILE_OFFSETS::size behind the base pointer.
TILE_OFFSETS_size(data, offset) ==
    TILE_OFFSETS.HEADER_SIZE
        + ArrayBytes(LOAD_U32(data, offset + TILE_OFFSETS.ENTRY_NUMBER),
                     LOAD_U16(data, offset + TILE_OFFSETS.ENTRY_SIZE))

\* The readers of variable size: the header, then the whole block.  size()
\* itself starts with check_and_fetch_remote, so a reader whose header fetch
\* failed fetches the header again before the sizes are loaded; k is the
\* number of the next request of this read.
RECURSIVE TILE_OFFSETS_check_and_fetch_remote(_, _, _, _, _)
TILE_OFFSETS_check_and_fetch_remote(m, r, remote, answers, k) ==
    IF r.fetched
    THEN [response |-> r, requests |-> <<>>, next |-> k]
    ELSE LET header == FETCH_DATABLOCK(remote, TILE_OFFSETS.HEADER_SIZE,
                                       Answer(answers, k))
             inner == TILE_OFFSETS_check_and_fetch_remote(m, header, remote,
                                                          answers, k + 1)
             bytes == TILE_OFFSETS_size(ResponseData(m, inner.response),
                                        remote)
         IN  [response |-> FETCH_DATABLOCK(remote, bytes,
                                           Answer(answers, inner.next)),
              requests |-> <<Range(remote, TILE_OFFSETS.HEADER_SIZE)>>
                            \o inner.requests \o <<Range(remote, bytes)>>,
              next |-> inner.next + 1]

\* A null response is dereferenced: the build reads what lies behind a wild
\* pointer, or it traps.
Trapped == [raised |-> FALSE, trapped |-> TRUE]
Outcomes(r, result) == IF r.fetched THEN {result} ELSE {result, Trapped}

RemoteInit ==
    /\ mem \in {DenseFile, PyramidFile, SparseFile}
    /\ oob \in {0, ByteRadix - 1}
    /\ pre = mem
    /\ op = NoCall
    /\ out = NoOut
    /\ steps = 0
    /\ log = <<>>
    /\ response = NoResponses

\* One method of a remote reader: the requests it issued join the log.
RemoteRead(c, fetch, result) ==
    /\ response' = [response EXCEPT ![c.input] = fetch.response]
    /\ log' = log \o fetch.requests
    /\ out' \in Outcomes(fetch.response, result)
    /\ op' = c
    /\ steps' = steps + 1
    /\ UNCHANGED <<mem, oob, pre>>

\* TILE_TABLE::validate_offset
RemoteValidateTileTable ==
    /\ steps < MaxReads
    /\ \E answers \in [1..MaxFetches -> Answers] :
        \E fetch \in {TILE_TABLE_check_and_fetch_remote(
                            response.TILE_TABLE, TileTableAt, answers)} :
            RemoteRead(Invoke("TILE_TABLE::validate_offset", TileTableAt,
                              "TILE_TABLE"),
                       fetch,
                       DATA_BLOCK_validate_offset_remote(
                            ResponseData(mem, fetch.response), TileTableAt,
                            RegionSize, "TILE_TABLE", RECOVER_TILE_TABLE))

\* TILE_OFFSETS::size
RemoteTileOffsetsSize ==
    /\ steps < MaxReads
    /\ \E answers \in [1..MaxFetches -> Answers] :
        \E fetch \in {TILE_OFFSETS_check_and_fetch_remote(
                            mem, response.TILE_OFFSETS, TilesAt, answers, 1)} :
            RemoteRead(Invoke("TILE_OFFSETS::size", TilesAt, "TILE_OFFSETS"),
                       fetch,
                       Returned(TILE_OFFSETS_size(
                            ResponseData(mem, fetch.response), TilesAt)))

RemoteNext ==
    \/ RemoteValidateTileTable
    \/ RemoteTileOffsetsSize

RemoteSpec == RemoteInit /\ [][RemoteNext]_vars

\* ----------------------------------------------------- the two byte orders
\* LOAD_* and STORE_* are bound to the __LE_ or to the __BE_ functions by the
\* byte order of the host.  One field of a short buffer is stored or loaded
\* by both hosts; out keeps what each of them produced.
CodecAddresses == 0 .. 8
CodecBuffers ==
    {[a \in CodecAddresses |-> (a * k + c) % ByteRadix] :
        k \in 0 .. 3, c \in 0 .. ByteRadix - 1}
Widths == {2, 3, 4, 5, 8}
\* the digits 1, 2, .. n, least significant first
RECURSIVE Ramp(_)
Ramp(n) == IF n = 0 THEN 0 ELSE Ramp(n - 1) + n * (ByteRadix ^ (n - 1))
FieldValues(n) == {0, Ramp(n), (ByteRadix ^ n) - 1}

HostStore(big, n, m, a, v) ==
    CASE n = 2 -> IF big THEN BE_STORE_U16(m, a, v) ELSE LE_STORE_U16(m, a, v)
      [] n = 3 -> IF big THEN BE_STORE_U24(m, a, v) ELSE LE_STORE_U24(m, a, v)
      [] n = 4 -> IF big THEN BE_STORE_U32(m, a, v) ELSE LE_STORE_U32(m, a, v)
      [] n = 5 -> IF big THEN BE_STORE_U40(m, a, v) ELSE LE_STORE_U40(m, a, v)
      [] n = 8 -> IF big THEN BE_STORE_U64(m, a, v) ELSE LE_STORE_U64(m, a, v)
HostLoad(big, n, m, a) ==
    CASE n = 2 -> IF big THEN BE_LOAD_U16(m, a) ELSE LE_LOAD_U16(m, a)
      [] n = 3 -> IF big THEN BE_LOAD_U24(m, a) ELSE LE_LOAD_U24(m, a)
      [] n = 4 -> IF big THEN BE_LOAD_U32(m, a) ELSE LE_LOAD_U32(m, a)
      [] n = 5 -> IF big THEN BE_LOAD_U40(m, a) ELSE LE_LOAD_U40(m, a)
      [] n = 8 -> IF big THEN BE_LOAD_U64(m, a) ELSE LE_LOAD_U64(m, a)

CodecInit ==
    /\ mem \in CodecBuffers
    /\ oob \in {0, ByteRadix - 1}
    /\ pre = mem
    /\ op = NoCall
    /\ out = NoOut
    /\ steps = 0
    /\ log = <<>>
    /\ response = NoResponses

HostsStore ==
    /\ steps < MaxSteps
    /\ \E n \in Widths : \E v \in FieldValues(n) :
        /\ op' = Invoke("STORE", 0, [width |-> n, value |-> v])
        /\ out' = [little |-> HostStore(FALSE, n, mem, 0, v),
                   big    |-> HostStore(TRUE, n, mem, 0, v)]
        /\ mem' = HostStore(FALSE, n, mem, 0, v)
        /\ pre' = mem
        /\ steps' = steps + 1
        /\ UNCHANGED <<oob, log, response>>
HostsLoad ==
    /\ op.writer # "LOAD"
    /\ \E n \in Widths, a \in {0, 1} :
        /\ op' = Invoke("LOAD", a, [width |-> n])
        /\ out' = [little |-> HostLoad(FALSE, n, mem, a),
                   big    |-> HostLoad(TRUE, n, mem, a)]
        /\ UNCHANGED <<mem, oob, pre, steps, log, response>>

CodecNext ==
    \/ HostsStore
    \/ HostsLoad

CodecSpec == CodecInit /\ [][CodecNext]_vars

\* ================================================================ claims
Writers ==
    {"STORE_FILE_HEADER", "STORE_TILE_TABLE", "STORE_METADATA",
     "STORE_ATTRIBUTES", "STORE_EXTENTS", "STORE_TILE_OFFSETS",
     "STORE_ATTRIBUTES_SIZES", "STORE_ATTRIBUTES_BYTES", "STORE_IMAGES_ARRAY",
     "STORE_IMAGES_BYTES", "STORE_ICC_COLOR_PROFILE", "STORE_ANNOTATION_ARRAY",
     "STORE_ANNOTATION_BYTES"}

\* C1: whenever a STORE_* writer raises, no byte of the region differs from
\* its value before the call (all validation precedes the first write).
C1_RaiseLeavesRegionUntouched ==
    (op.writer \in Writers /\ out.raised) => mem = pre

\* A raise that left bytes behind: STORE_TILE_OFFSETS, header already written.
C1_PartialWriteReached ==
    /\ op.writer = "STORE_TILE_OFFSETS"
    /\ out.raised
    /\ mem # pre

\* C2: TILE_OFFSETS::validate_full reports no failure for a block whose every
\* entry is sparse (offset = NULL_TILE) or has offset + size inside the file,
\* and the minimal file whose single tile is sparse passes
\* validate_file_structure with SUCCESS.
TileEntriesSparseOrInside(m) ==
    LET STEP    == LOAD_U16(m, TilesAt + TILE_OFFSETS.ENTRY_SIZE)
        ENTRIES == LOAD_U32(m, TilesAt + TILE_OFFSETS.ENTRY_NUMBER)
    IN  /\ TILE_OFFSETS_validate_offset(m, TilesAt, RegionSize).flag
             = IRIS_SUCCESS
        /\ FirstTile + ENTRIES * STEP <= RegionSize
        /\ \A TI \in 0 .. ENTRIES - 1 :
              LET o == LOAD_U40(m, FirstTile + TI * STEP + TILE_OFFSET.OFFSET)
                  s == LOAD_U24(m, FirstTile + TI * STEP + TILE_OFFSET.TILE_SIZE)
              IN  o = NULL_TILE \/ o + s <= RegionSize

C2_SparseTilesValidate ==
    /\ (op.writer = "TILE_OFFSETS::validate_full"
            /\ TileEntriesSparseOrInside(mem))
        => ~And(out, IRIS_FAILURE)
    /\ (op.writer = "validate_file_structure" /\ mem = SparseFile)
        => (~out.terminated /\ out.result.flag = IRIS_SUCCESS)

\* C3: after a writer of a non-root block kind K returns, the u64 at the block
\* offset o equals o, the u16 at o + 8 equals K's recovery tag, and
\* DATA_BLOCK::validate_offset for K at o succeeds.
RecoveryTagOf(writer) ==
    CASE writer = "STORE_TILE_TABLE" -> RECOVER_TILE_TABLE
      [] writer = "STORE_METADATA" -> RECOVER_METADATA
      [] writer = "STORE_ATTRIBUTES" -> RECOVER_ATTRIBUTES
      [] writer = "STORE_EXTENTS" -> RECOVER_LAYER_EXTENTS
      [] writer = "STORE_TILE_OFFSETS" -> RECOVER_TILE_OFFSETS
      [] writer = "STORE_ATTRIBUTES_SIZES" -> RECOVER_ATTRIBUTES_SIZES
      [] writer = "STORE_ATTRIBUTES_BYTES" -> RECOVER_ATTRIBUTES_BYTES
      [] writer = "STORE_IMAGES_ARRAY" -> RECOVER_ASSOCIATED_IMAGES
      [] writer = "STORE_IMAGES_BYTES" -> RECOVER_ASSOCIATED_IMAGE_BYTES
      [] writer = "STORE_ICC_COLOR_PROFILE" -> RECOVER_ICC_PROFILE
      [] writer = "STORE_ANNOTATION_ARRAY" -> RECOVER_ANNOTATIONS
      [] writer = "STORE_ANNOTATION_BYTES" -> RECOVER_ANNOTATION_BYTES

C3_SelfOffsetRoundTrip ==
    (op.writer \in Writers \ {"STORE_FILE_HEADER"} /\ ~out.raised) =>
        /\ LOAD_U64(mem, op.offset) = op.offset
        /\ LOAD_U16(mem, op.offset + 8) = RecoveryTagOf(op.writer)
        /\ DATA_BLOCK_validate_offset(mem, op.offset, RegionSize, op.writer,
                                      RecoveryTagOf(op.writer)).flag
             = IRIS_SUCCESS

\* A block stored where no block validated before the call.
C3_BlockStored ==
    /\ op.writer = "STORE_ANNOTATION_BYTES"
    /\ ~out.raised
    /\ LOAD_U64(pre, op.offset) # op.offset
    /\ LOAD_U64(mem, op.offset) = op.offset

\* C4: in any sequence of STORE_* calls, a call of STORE_FILE_HEADER writes
\* the header only if the Tile Table and the Metadata block at the offsets it
\* is given pass validate_full at that moment; otherwise it raises and the
\* header bytes are left unchanged.
SubtreesPass(m, CI) ==
    /\ ~And(TILE_TABLE_validate_full(m, CI.tileTableOffset, CI.fileSize),
            IRIS_FAILURE)
    /\ ~And(METADATA_validate_full(m, CI.metadataOffset, CI.fileSize),
            IRIS_FAILURE)

C4_HeaderAfterSubtrees ==
    [][(op'.writer = "STORE_FILE_HEADER" /\ steps' = steps + 1) =>
            /\ ~out'.raised => SubtreesPass(mem, op'.input)
            /\ ~SubtreesPass(mem, op'.input) => (out'.raised /\ mem' = mem)]_vars

\* A header written over a region that had none, and a header refused.
C4_HeaderWritten ==
    /\ op.writer = "STORE_FILE_HEADER"
    /\ ~out.raised
    /\ LOAD_U32(pre, FILE_HEADER.MAGIC_BYTES_OFFSET) # MAGIC_BYTES
    /\ LOAD_U32(mem, FILE_HEADER.MAGIC_BYTES_OFFSET) = MAGIC_BYTES

\* C5: with the correct magic and RECOVER_HEADER tag, validate_header and
\* validate_file_structure return VALIDATION_FAILURE whenever the stored
\* file_size differs from the size of the region.
MagicAndTag(m) ==
    /\ LOAD_U32(m, FILE_HEADER.MAGIC_BYTES_OFFSET) = MAGIC_BYTES
    /\ LOAD_U16(m, FILE_HEADER.RECOVERY) = RECOVER_HEADER

C5_FileSizeMismatch ==
    (MagicAndTag(mem) /\ LOAD_U64(mem, FILE_HEADER.FILE_SIZE) # RegionSize) =>
        /\ op.writer = "validate_header"
            => out.flag = IRIS_VALIDATION_FAILURE
        /\ op.writer = "validate_file_structure"
            => (~out.terminated /\ out.result.flag = IRIS_VALIDATION_FAILURE)

C5_MismatchValidated ==
    /\ op.writer = "validate_file_structure"
    /\ MagicAndTag(mem)
    /\ LOAD_U64(mem, FILE_HEADER.FILE_SIZE) = RegionSize + 1
    /\ out.result.msg = <<"FILE_HEADER", "file size">>

\* C6: validate_offset for offset o and tag T over a region of size N returns
\* VALIDATION_FAILURE iff o is NULL_OFFSET, o >= N, the u64 at o differs from
\* o or the u16 at o + 8 differs from T, and SUCCESS otherwise; a tile table
\* whose self-offset was overwritten makes validate_file_structure return
\* VALIDATION_FAILURE.
OffsetDisagrees(m, o, T) ==
    \/ o = NULL_OFFSET
    \/ o >= RegionSize
    \/ LOAD_U64(m, o) # o
    \/ LOAD_U16(m, o + 8) # T

TileTableSelfOffsetWrong(m) ==
    /\ FILE_HEADER_validate_header(m, RegionSize).flag = IRIS_SUCCESS
    /\ LOAD_U64(m, FILE_HEADER.TILE_TABLE_OFFSET) = TileTableAt
    /\ LOAD_U64(m, TileTableAt) # TileTableAt

C6_ValidateOffset ==
    /\ op.writer = "validate_offset" =>
          out.flag = IF OffsetDisagrees(mem, op.offset, op.input.recovery)
                     THEN IRIS_VALIDATION_FAILURE ELSE IRIS_SUCCESS
    /\ (op.writer = "validate_file_structure" /\ TileTableSelfOffsetWrong(mem))
          => /\ ~out.terminated
             /\ out.result.flag = IRIS_VALIDATION_FAILURE
             /\ out.result.msg = <<"TILE_TABLE", "offset validation">>

C6_SelfOffsetOverwritten ==
    /\ op.writer = "validate_file_structure"
    /\ TileTableSelfOffsetWrong(mem)
    /\ LOAD_U16(mem, TileTableAt + 8) = RECOVER_TILE_TABLE

\* C7: a file that is valid but for a stored minor version one above the
\* reader's validates without a failure bit and with the WARNING_VALIDATION
\* flag in the returned result, from validate_header and from
\* validate_file_structure (the subtrees are still validated).
NewerMinor(m) ==
    /\ LOAD_U16(m, FILE_HEADER.EXTENSION_MAJOR) = IRIS_EXTENSION_MAJOR
    /\ LOAD_U16(m, FILE_HEADER.EXTENSION_MINOR) = IRIS_EXTENSION_MINOR + 1
    /\ validate_file_structure(
            Patched(m, Patch(FILE_HEADER.EXTENSION_MINOR, 2,
                             IRIS_EXTENSION_MINOR)),
            RegionSize)
         = [terminated |-> FALSE, result |-> Success]

C7_NewerMinorWarns ==
    NewerMinor(mem) =>
        /\ op.writer = "validate_header" =>
              (~And(out, IRIS_FAILURE) /\ And(out, IRIS_WARNING_VALIDATION))
        /\ op.writer = "validate_file_structure" =>
              /\ ~out.terminated
              /\ ~And(out.result, IRIS_FAILURE)
              /\ And(out.result, IRIS_WARNING_VALIDATION)

\* C8: read_tile_offsets maps a stored entry whose offset is NULL_TILE to
\* {NULL_OFFSET, 0} whatever its stored size, and every other entry of a
\* successful read to its stored {offset, size}.
RECURSIVE SumTiles(_, _)
SumTiles(extents, n) ==
    IF n = 0 THEN 0
    ELSE SumTiles(extents, n - 1) + extents[n].xTiles * extents[n].yTiles

StoredTile(m, k) ==
    LET STEP  == LOAD_U16(m, TilesAt + TILE_OFFSETS.ENTRY_SIZE)
        array == FirstTile + k * STEP
    IN  Tile(LOAD_U40(m, array + TILE_OFFSET.OFFSET),
             LOAD_U24(m, array + TILE_OFFSET.TILE_SIZE))

Normalized(stored) ==
    IF stored.offset = NULL_TILE THEN Tile(NULL_OFFSET, 0) ELSE stored

C8_SparseTileNormalized ==
    (op.writer = "read_tile_offsets" /\ ~out.raised) =>
        \A LI \in DOMAIN out.value : \A TI \in DOMAIN out.value[LI] :
            out.value[LI][TI]
                = Normalized(StoredTile(mem, SumTiles(op.input, LI - 1) + TI - 1))

\* A sparse entry stored with a size, read beside an entry that is not sparse.
C8_SparseTileRead ==
    /\ op.writer = "read_tile_offsets"
    /\ ~out.raised
    /\ Len(out.value) = 2
    /\ StoredTile(mem, 1) = Tile(NULL_TILE, 5)
    /\ out.value[2][1] = Tile(NULL_OFFSET, 0)
    /\ out.value[2][2] = StoredTile(mem, 2)

\* C9: read_tile_offsets raises unless the stored entry count equals the sum
\* of x_tiles * y_tiles over the layer extents; when it succeeds, layer i
\* holds exactly x_tiles_i * y_tiles_i entries, consecutive in layer order.
C9_TileCountConsistent ==
    op.writer = "read_tile_offsets" =>
        /\ LOAD_U32(mem, TilesAt + TILE_OFFSETS.ENTRY_NUMBER)
                # SumTiles(op.input, Len(op.input))
            => out.raised
        /\ ~out.raised =>
            /\ DOMAIN out.value = DOMAIN op.input
            /\ \A LI \in DOMAIN op.input :
                /\ DOMAIN out.value[LI]
                     = 1 .. (op.input[LI].xTiles * op.input[LI].yTiles)
                /\ \A TI \in DOMAIN out.value[LI] :
                     out.value[LI][TI] = Normalized(
                        StoredTile(mem, SumTiles(op.input, LI - 1) + TI - 1))

\* C10: when read_tile_offsets reads the block, STORE_TILE_OFFSETS at the same
\* offset with the layers read back succeeds, and the second read equals the
\* first.
C10_RestoreIdempotent ==
    (op.writer = "STORE_TILE_OFFSETS"
        /\ ~AbstractTileOffsets(pre).raised
        /\ op.input = AbstractTileOffsets(pre).value) =>
            /\ ~out.raised
            /\ AbstractTileOffsets(mem) = AbstractTileOffsets(pre)

\* The identifiers stored in the entries of the annotations array at offset.
StoredIdentifiers(m, offset) ==
    {LOAD_U24(m, offset + ANNOTATIONS.HEADER_SIZE
                    + AI * LOAD_U16(m, offset + ANNOTATIONS.ENTRY_SIZE)
                    + ANNOTATION_ENTRY.IDENTIFIER) :
        AI \in 0..(LOAD_U32(m, offset + ANNOTATIONS.ENTRY_NUMBER) - 1)}
\* The array at offset is as STORE_ANNOTATION_ARRAY leaves it: tagged, with
\* entries of the stored size, each naming a tagged byte block and a type.
StoredArray(m, offset, size) ==
    /\ ~And(ANNOTATIONS_validate_offset(m, offset, size), IRIS_FAILURE)
    /\ LOAD_U16(m, offset + ANNOTATIONS.ENTRY_SIZE) = ANNOTATION_ENTRY.SIZE
    /\ \A AI \in 0..(LOAD_U32(m, offset + ANNOTATIONS.ENTRY_NUMBER) - 1) :
        LET at == offset + ANNOTATIONS.HEADER_SIZE + AI * ANNOTATION_ENTRY.SIZE
        IN  /\ ~And(ANNOTATION_BYTES_validate_offset(m,
                        LOAD_U64(m, at + ANNOTATION_ENTRY.BYTES_OFFSET), size),
                    IRIS_FAILURE)
            /\ VALIDATE_ANNOTATION_TYPE(
                    LOAD_U8(m, at + ANNOTATION_ENTRY.FORMAT))

\* C11: read_annotations of a stored annotations array without groups
\* returns a map whose keys are exactly the identifiers stored in the array,
\* so two entries stored under 0x000123 give the one key 0x000123.
C11_OneEntryPerIdentifier ==
    (/\ op.writer = "read_annotations"
     /\ StoredArray(mem, AnnotationsAt, RegionSize)
     /\ ~ANNOTATIONS_groups(mem, AnnotationsAt, RegionSize))
        => /\ ~out.raised
           /\ DOMAIN out.value.annotations
                = StoredIdentifiers(mem, AnnotationsAt)
\* read_annotations has read an array of two entries stored under 0x000123.
C11_TwinsRead ==
    /\ op.writer = "read_annotations"
    /\ StoredArray(mem, AnnotationsAt, RegionSize)
    /\ LOAD_U32(mem, AnnotationsAt + ANNOTATIONS.ENTRY_NUMBER) = 2
    /\ StoredIdentifiers(mem, AnnotationsAt) = {291}

\* The children other than the annotations are absent or pass their own
\* validation at their stored offsets.
OtherChildrenPass(m, offset, size) ==
    /\ ~And(METADATA_validate_offset(m, offset, size), IRIS_FAILURE)
    /\ METADATA_attributes(m, offset, size) =>
        ~And(ATTRIBUTES_validate_full(m,
                LOAD_U64(m, offset + METADATA.ATTRIBUTES_OFFSET), size),
             IRIS_FAILURE)
    /\ METADATA_image_array(m, offset, size) =>
        ~And(IMAGE_ARRAY_validate_full(m,
                LOAD_U64(m, offset + METADATA.IMAGES_OFFSET), size),
             IRIS_FAILURE)
    /\ METADATA_color_profile(m, offset, size) =>
        ~And(ICC_PROFILE_validate_full(m,
                LOAD_U64(m, offset + METADATA.ICC_COLOR_OFFSET), size),
             IRIS_FAILURE)

\* C12: METADATA::validate_full checks the annotations at the stored
\* annotations offset: when the other children pass and the block at that
\* offset passes ANNOTATIONS::validate_full, the metadata block reports no
\* failure, whatever the image array offset holds.
C12_AnnotationsAtOwnOffset ==
    (/\ op.writer = "METADATA::validate_full"
     /\ OtherChildrenPass(mem, MetadataAt, RegionSize)
     /\ METADATA_annotations(mem, MetadataAt, RegionSize)
     /\ ~And(ANNOTATIONS_validate_full(mem,
                LOAD_U64(mem, MetadataAt + METADATA.ANNOTATIONS_OFFSET),
                RegionSize),
             IRIS_FAILURE))
        => ~And(out, IRIS_FAILURE)

\* The byte block of an associated image, title and image bytes included,
\* ends inside the file.
ImageBytesInside(m, offset, size) ==
    offset + IMAGE_BYTES.HEADER_SIZE
        + LOAD_U16(m, offset + IMAGE_BYTES.TITLE_SIZE)
        + LOAD_U32(m, offset + IMAGE_BYTES.IMAGE_SIZE) <= size
\* The image array and the byte block of each of its entries end inside the
\* file.
ImagesInside(m, offset, size) ==
    LET STEP    == LOAD_U16(m, offset + IMAGE_ARRAY.ENTRY_SIZE)
        ENTRIES == LOAD_U32(m, offset + IMAGE_ARRAY.ENTRY_NUMBER)
        start   == offset + IMAGE_ARRAY.HEADER_SIZE
    IN  /\ start + ENTRIES * STEP <= size
        /\ \A II \in 0..(ENTRIES - 1) :
            ImageBytesInside(m,
                LOAD_U64(m, start + II * STEP + IMAGE_ENTRY.BYTES_OFFSET),
                size)
\* The declared extents of the blocks a file's metadata reaches.
MetadataExtentsInside(m, size) ==
    LET meta == LOAD_U64(m, HEADER_OFFSET + FILE_HEADER.METADATA_OFFSET)
    IN  /\ meta + METADATA.HEADER_SIZE <= size
        /\ METADATA_image_array(m, meta, size) =>
            ImagesInside(m, LOAD_U64(m, meta + METADATA.IMAGES_OFFSET), size)
        /\ METADATA_color_profile(m, meta, size) =>
            LET icc == LOAD_U64(m, meta + METADATA.ICC_COLOR_OFFSET)
            IN  icc + ICC_PROFILE.HEADER_SIZE
                    + LOAD_U32(m, icc + ICC_PROFILE.ENTRY_NUMBER) <= size

\* C13: a file that validate_file_structure accepts has the declared extent
\* of every block its metadata reaches inside the file.
C13_ExtentsInsideWhenAccepted ==
    (/\ op.writer = "validate_file_structure"
     /\ ~out.terminated
     /\ ~And(out.result, IRIS_FAILURE))
        => MetadataExtentsInside(mem, RegionSize)

\* The number of entries of the layer extents array at offset, and entry LI.
ExtentsStored(m, offset) == LOAD_U32(m, offset + LAYER_EXTENTS.ENTRY_NUMBER)
ExtentStored(m, offset, LI) ==
    LET array == offset + LAYER_EXTENTS.HEADER_SIZE
                    + LI * LOAD_U16(m, offset + LAYER_EXTENTS.ENTRY_SIZE)
    IN  Extent(LOAD_U32(m, array + LAYER_EXTENT.X_TILES),
               LOAD_U32(m, array + LAYER_EXTENT.Y_TILES),
               LOAD_F32(m, array + LAYER_EXTENT.SCALE))
\* Entry LI breaks a rule: no tiles across or down, a scale that is not
\* above zero, or a scale that is not above the scale of the entry before.
ExtentBreaksRule(m, offset, LI) ==
    \/ ExtentStored(m, offset, LI).xTiles = 0
    \/ ExtentStored(m, offset, LI).yTiles = 0
    \/ ~F32_GT(ExtentStored(m, offset, LI).scale, 0)
    \/ /\ LI > 0
       /\ ~F32_GT(ExtentStored(m, offset, LI).scale,
                  ExtentStored(m, offset, LI - 1).scale)
\* The block at offset is a layer extents block whose array ends in the file.
ExtentsArrayInside(m, offset, size) ==
    /\ LAYER_EXTENTS_validate_offset(m, offset, size).flag = IRIS_SUCCESS
    /\ offset + LAYER_EXTENTS.HEADER_SIZE
        + ExtentsStored(m, offset)
            * LOAD_U16(m, offset + LAYER_EXTENTS.ENTRY_SIZE) <= size

\* C14: on a layer extents block whose array lies in the file,
\* LAYER_EXTENTS::validate_full fails exactly when some entry has no tiles
\* across or down, a scale not above zero or a scale not above the previous
\* entry's, and the failure names the first such entry: layer 1 for two
\* layers of equal scale.
C14_ExtentRulesEnforced ==
    (/\ op.writer = "LAYER_EXTENTS::validate_full"
     /\ ExtentsArrayInside(mem, ExtentsAt, RegionSize))
        => LET broken == {LI \in 0..(ExtentsStored(mem, ExtentsAt) - 1) :
                            ExtentBreaksRule(mem, ExtentsAt, LI)}
           IN  /\ And(out, IRIS_FAILURE) <=> broken # {}
               /\ broken # {} =>
                    /\ out.msg[3] \in broken
                    /\ \A LI \in broken : out.msg[3] <= LI
\* validate_full has failed two valid layers of equal scale, naming layer 1.
C14_EqualScalesFailed ==
    /\ op.writer = "LAYER_EXTENTS::validate_full"
    /\ ExtentsArrayInside(mem, ExtentsAt, RegionSize)
    /\ ExtentsStored(mem, ExtentsAt) = 2
    /\ ~ExtentBreaksRule(mem, ExtentsAt, 0)
    /\ ExtentStored(mem, ExtentsAt, 1).xTiles > 0
    /\ ExtentStored(mem, ExtentsAt, 1).yTiles > 0
    /\ ExtentStored(mem, ExtentsAt, 1).scale
        = ExtentStored(mem, ExtentsAt, 0).scale
    /\ And(out, IRIS_FAILURE)
    /\ out.msg[3] = 1

\* The sizes and bytes blocks an attributes header at offset names.
SizesOf(m, offset) == LOAD_U64(m, offset + ATTRIBUTES.LENGTHS_OFFSET)
BytesOf(m, offset) == LOAD_U64(m, offset + ATTRIBUTES.BYTE_ARRAY_OFFSET)
\* The key and value sizes of the first n entries of a sizes block, summed.
RECURSIVE KeyValueTotal(_, _, _)
KeyValueTotal(m, sizes, n) ==
    IF n = 0 THEN 0
    ELSE LET entry == sizes + ATTRIBUTES_SIZES.HEADER_SIZE
                        + (n - 1) * LOAD_U16(m, sizes
                                        + ATTRIBUTES_SIZES.ENTRY_SIZE)
         IN  KeyValueTotal(m, sizes, n - 1)
                + LOAD_U16(m, entry + ATTRIBUTE_SIZE.KEY_SIZE)
                + LOAD_U32(m, entry + ATTRIBUTE_SIZE.VALUE_SIZE)
SizesTotal(m, offset) ==
    KeyValueTotal(m, SizesOf(m, offset),
                  LOAD_U32(m, SizesOf(m, offset)
                                + ATTRIBUTES_SIZES.ENTRY_NUMBER))
BytesDeclared(m, offset) ==
    LOAD_U32(m, BytesOf(m, offset) + ATTRIBUTES_BYTES.ENTRY_NUMBER)
\* The three blocks are where their offsets say, the format is defined and
\* the sizes array ends inside the file.
AttributesReadable(m, offset, size) ==
    /\ ~And(ATTRIBUTES_validate_offset(m, offset, size), IRIS_FAILURE)
    /\ VALIDATE_METADATA_TYPE(LOAD_U8(m, offset + ATTRIBUTES.FORMAT))
    /\ ~And(ATTRIBUTES_SIZES_validate_offset(m, SizesOf(m, offset), size),
            IRIS_FAILURE)
    /\ ~And(ATTRIBUTES_BYTES_validate_offset(m, BytesOf(m, offset), size),
            IRIS_FAILURE)
    /\ SizesOf(m, offset) + ATTRIBUTES_SIZES.HEADER_SIZE
        + LOAD_U32(m, SizesOf(m, offset) + ATTRIBUTES_SIZES.ENTRY_NUMBER)
            * LOAD_U16(m, SizesOf(m, offset) + ATTRIBUTES_SIZES.ENTRY_SIZE)
                <= size

\* C15: on readable attributes, ATTRIBUTES::validate_full fails whenever
\* the key and value sizes of the sizes array sum to another number than
\* the byte count the bytes block declares; when the two are equal (0 and 0
\* included) it fails only if the declared bytes pass the end of the file.
C15_AttributeBytesTotal ==
    (/\ op.writer = "ATTRIBUTES::validate_full"
     /\ AttributesReadable(mem, AttributesAt, RegionSize))
        => IF SizesTotal(mem, AttributesAt) # BytesDeclared(mem, AttributesAt)
           THEN And(out, IRIS_FAILURE)
           ELSE And(out, IRIS_FAILURE)
                    => BytesOf(mem, AttributesAt)
                            + BytesDeclared(mem, AttributesAt) > RegionSize
\* validate_full has failed readable attributes whose sizes sum to another
\* number than the declared byte count.
C15_TotalsDisagree ==
    /\ op.writer = "ATTRIBUTES::validate_full"
    /\ AttributesReadable(mem, AttributesAt, RegionSize)
    /\ SizesTotal(mem, AttributesAt) # BytesDeclared(mem, AttributesAt)
    /\ And(out, IRIS_FAILURE)

\* The group offsets an annotations header at offset stores.
GroupSizesOf(m, offset) == LOAD_U64(m, offset + ANNOTATIONS.GROUP_SIZES_OFFSET)
GroupBytesOf(m, offset) == LOAD_U64(m, offset + ANNOTATIONS.GROUP_BYTES_OFFSET)
\* Label size plus three bytes a member, summed over the first n entries of
\* a group sizes block, each entry read at its own place in the array.
RECURSIVE GroupTotal(_, _, _)
GroupTotal(m, sizes, n) ==
    IF n = 0 THEN 0
    ELSE LET entry == sizes + ANNOTATION_GROUP_SIZES.HEADER_SIZE
                        + (n - 1) * LOAD_U16(m, sizes
                                        + ANNOTATION_GROUP_SIZES.ENTRY_SIZE)
         IN  GroupTotal(m, sizes, n - 1)
                + LOAD_U16(m, entry + ANNOTATION_GROUP_SIZE.LABEL_SIZE)
                + 3 * LOAD_U32(m, entry + ANNOTATION_GROUP_SIZE.ENTRIES_NUMBER)
\* An annotations block without entries whose two group offsets name a
\* group sizes block and a group bytes block that end inside the file.
GroupsReadable(m, offset, size) ==
    /\ ~And(ANNOTATIONS_validate_offset(m, offset, size), IRIS_FAILURE)
    /\ LOAD_U32(m, offset + ANNOTATIONS.ENTRY_NUMBER) = 0
    /\ GroupSizesOf(m, offset) # NULL_OFFSET
    /\ GroupBytesOf(m, offset) # NULL_OFFSET
    /\ ~And(ANNOTATION_GROUP_SIZES_validate_offset(m, GroupSizesOf(m, offset),
                                                   size), IRIS_FAILURE)
    /\ ~And(DATA_BLOCK_validate_offset(m, GroupBytesOf(m, offset), size,
                "ANNOTATION_GROUP_BYTES", RECOVER_ANNOTATION_GROUP_BYTES),
            IRIS_FAILURE)
    /\ GroupSizesOf(m, offset) + ANNOTATION_GROUP_SIZES.HEADER_SIZE
        + LOAD_U32(m, GroupSizesOf(m, offset)
                        + ANNOTATION_GROUP_SIZES.ENTRY_NUMBER)
            * LOAD_U16(m, GroupSizesOf(m, offset)
                            + ANNOTATION_GROUP_SIZES.ENTRY_SIZE) <= size
    /\ GroupBytesOf(m, offset) + ANNOTATION_GROUP_BYTES.HEADER_SIZE
        + LOAD_U32(m, GroupBytesOf(m, offset)
                        + ANNOTATION_GROUP_BYTES.ENTRY_NUMBER) <= size

\* C16: on an annotations block whose two group offsets name readable
\* group blocks, ANNOTATIONS::validate_full fails exactly when the group
\* sizes entries sum to another number than the group bytes block declares.
C16_GroupBytesTotal ==
    (/\ op.writer = "ANNOTATIONS::validate_full"
     /\ GroupsReadable(mem, AnnotationsAt, RegionSize))
        => (And(out, IRIS_FAILURE)
            <=> GroupTotal(mem, GroupSizesOf(mem, AnnotationsAt),
                    LOAD_U32(mem, GroupSizesOf(mem, AnnotationsAt)
                                    + ANNOTATION_GROUP_SIZES.ENTRY_NUMBER))
                # LOAD_U32(mem, GroupBytesOf(mem, AnnotationsAt)
                                    + ANNOTATION_GROUP_BYTES.ENTRY_NUMBER))

\* C17: ANNOTATIONS::validate_full accepts an annotations block without
\* entries whose group offsets are both NULL_OFFSET, and fails a block in
\* which exactly one of the two is NULL_OFFSET.
C17_GroupOffsetsPaired ==
    (/\ op.writer = "ANNOTATIONS::validate_full"
     /\ ~And(ANNOTATIONS_validate_offset(mem, AnnotationsAt, RegionSize),
             IRIS_FAILURE)
     /\ LOAD_U32(mem, AnnotationsAt + ANNOTATIONS.ENTRY_NUMBER) = 0)
        => LET sizesNull == GroupSizesOf(mem, AnnotationsAt) = NULL_OFFSET
               bytesNull == GroupBytesOf(mem, AnnotationsAt) = NULL_OFFSET
           IN  /\ (sizesNull /\ bytesNull) => ~And(out, IRIS_FAILURE)
               /\ (sizesNull # bytesNull) => And(out, IRIS_FAILURE)

\* An entry of the image array at offset, the array lying inside the file,
\* names an Image Bytes block that IMAGE_BYTES::validate_full fails.
ImageBytesFail(m, offset, size) ==
    LET STEP    == LOAD_U16(m, offset + IMAGE_ARRAY.ENTRY_SIZE)
        ENTRIES == LOAD_U32(m, offset + IMAGE_ARRAY.ENTRY_NUMBER)
        start   == offset + IMAGE_ARRAY.HEADER_SIZE
    IN  /\ ~And(IMAGE_ARRAY_validate_offset(m, offset, size), IRIS_FAILURE)
        /\ start + ENTRIES * STEP <= size
        /\ \E II \in 0..(ENTRIES - 1) :
            And(IMAGE_BYTES_validate_full(m,
                    LOAD_U64(m, start + II * STEP + IMAGE_ENTRY.BYTES_OFFSET),
                    size),
                IRIS_FAILURE)

\* C18: IMAGE_ARRAY::validate_full fails when the Image Bytes block of one
\* of its entries fails validation (an empty title among the reasons), and
\* so does validate_file_structure on a file whose metadata links the array.
C18_ImageBytesValidated ==
    /\ (/\ op.writer = "IMAGE_ARRAY::validate_full"
        /\ ImageBytesFail(mem, ImagesAt, RegionSize))
            => And(out, IRIS_FAILURE)
    /\ (/\ op.writer = "validate_file_structure"
        /\ METADATA_image_array(mem, MetadataAt, RegionSize)
        /\ ImageBytesFail(mem,
                LOAD_U64(mem, MetadataAt + METADATA.IMAGES_OFFSET),
                RegionSize))
            => (out.terminated \/ And(out.result, IRIS_FAILURE))

\* The attributes block at offset is stored as DICOM with the version 0.
DicomUnversioned(m, offset) ==
    /\ LOAD_U8(m, offset + ATTRIBUTES.FORMAT) = MetadataType.METADATA_DICOM
    /\ LOAD_U16(m, offset + ATTRIBUTES.VERSION) = 0

\* C19: DICOM attributes of version 0 are rejected by the writer, which
\* raises and leaves the region as it was, and by ATTRIBUTES::validate_full,
\* which fails a stored block of that format and version.
C19_DicomVersionRequired ==
    /\ (/\ op.writer = "STORE_ATTRIBUTES"
        /\ op.input.type = MetadataType.METADATA_DICOM
        /\ op.input.version = 0)
            => (out.raised /\ mem = pre)
    /\ (/\ op.writer = "ATTRIBUTES::validate_full"
        /\ ~And(ATTRIBUTES_validate_offset(mem, AttributesAt, RegionSize),
                IRIS_FAILURE)
        /\ DicomUnversioned(mem, AttributesAt))
            => And(out, IRIS_FAILURE)

\* The offsets stored in the entries of an array block at offset: field is
\* the place of the offset in an entry and width its size in bytes.
StoredOffsets(m, offset, header, field, width) ==
    {LoadLE(m, offset + header
                + II * LOAD_U16(m, offset + IMAGE_ARRAY.ENTRY_SIZE) + field,
            width)
        : II \in 0..(LOAD_U32(m, offset + IMAGE_ARRAY.ENTRY_NUMBER) - 1)}
\* The blocks a walk from the header of the file reaches, each under its
\* offset: the tile table and its two arrays, the tiles stored, the
\* metadata block, and what the metadata links.
ReachableBlocks(m, size) ==
    LET TABLE == LOAD_U64(m, HEADER_OFFSET + FILE_HEADER.TILE_TABLE_OFFSET)
        TILES == LOAD_U64(m, TABLE + TILE_TABLE.TILE_OFFSETS_OFFSET)
        META  == LOAD_U64(m, HEADER_OFFSET + FILE_HEADER.METADATA_OFFSET)
        ARRAY == LOAD_U64(m, META + METADATA.IMAGES_OFFSET)
        ANNOT == LOAD_U64(m, META + METADATA.ANNOTATIONS_OFFSET)
        Blocks(type, offsets) == {MapEntry(type, o) : o \in offsets}
    IN  Blocks("FILE_HEADER", {HEADER_OFFSET})
        \cup Blocks("TILE_TABLE", {TABLE})
        \cup Blocks("LAYER_EXTENTS",
                {LOAD_U64(m, TABLE + TILE_TABLE.LAYER_EXTENTS_OFFSET)})
        \cup Blocks("TILE_OFFSETS", {TILES})
        \cup Blocks("TILE_DATA",
                StoredOffsets(m, TILES, TILE_OFFSETS.HEADER_SIZE,
                              TILE_OFFSET.OFFSET, 5) \ {NULL_TILE})
        \cup Blocks("METADATA", {META})
        \cup (IF METADATA_attributes(m, META, size)
              THEN Blocks("ATTRIBUTES",
                        {LOAD_U64(m, META + METADATA.ATTRIBUTES_OFFSET)})
              ELSE {})
        \cup (IF METADATA_image_array(m, META, size)
              THEN Blocks("ASSOCIATED_IMAGES", {ARRAY})
                    \cup Blocks("ASSOCIATED_IMAGE_BYTES",
                            StoredOffsets(m, ARRAY, IMAGE_ARRAY.HEADER_SIZE,
                                          IMAGE_ENTRY.BYTES_OFFSET, 8))
              ELSE {})
        \cup (IF METADATA_color_profile(m, META, size)
              THEN Blocks("ICC_PROFILE",
                        {LOAD_U64(m, META + METADATA.ICC_COLOR_OFFSET)})
              ELSE {})
        \cup (IF METADATA_annotations(m, META, size)
              THEN Blocks("ANNOTATIONS", {ANNOT})
                    \cup Blocks("ANNOTATION_BYTES",
                            StoredOffsets(m, ANNOT, ANNOTATIONS.HEADER_SIZE,
                                          ANNOTATION_ENTRY.BYTES_OFFSET, 8))
              ELSE {})
\* validate_file_structure returns, and without a failure.
ValidFile(m, size) ==
    \E valid \in {validate_file_structure(m, size)} :
        ~valid.terminated /\ ~And(valid.result, IRIS_FAILURE)

\* C20: on a file that validate_file_structure accepts, generate_file_map
\* returns a map that holds, under its offset, every block reachable from
\* the header: each tile, each associated image byte stream and each
\* annotation byte stream among them.
C20_FileMapComplete ==
    (/\ op.writer = "generate_file_map"
     /\ ValidFile(mem, RegionSize))
        => /\ ~out.raised
           /\ ReachableBlocks(mem, RegionSize) \subseteq out.value

\* The key/value pairs of an attribute map, whatever its iteration order.
EntriesOf(attributes) ==
    {attributes.entries[i] : i \in DOMAIN attributes.entries}
\* The three stores of one attribute map A that the log holds: the sizes and
\* the bytes of the same A, then the header naming the two blocks.
AttributesEncoded ==
    /\ Len(log) = 3
    /\ log[1].writer = "STORE_ATTRIBUTES_SIZES"
    /\ log[2].writer = "STORE_ATTRIBUTES_BYTES"
    /\ log[3].writer = "STORE_ATTRIBUTES"
    /\ log[2].input = log[1].input
    /\ log[3].input.sizes = log[1].offset
    /\ log[3].input.bytes = log[2].offset

\* C21: once the sizes and the bytes of an attribute map A (distinct keys,
\* the empty map included) and the header naming them are stored without a
\* raise, read_attributes returns the header's type and version and a map
\* whose key/value pairs are exactly those of A.
C21_AttributesRoundTrip ==
    (op.writer = "read_attributes" /\ AttributesEncoded)
        => /\ ~out.raised
           /\ out.value = [type    |-> log[3].input.type,
                           version |-> log[3].input.version,
                           entries |-> EntriesOf(log[1].input)]

\* Two attributes stored over a region of other bytes and read back.
C21_TwoAttributesRead ==
    /\ op.writer = "read_attributes"
    /\ AttributesEncoded
    /\ log[1].input.entries = TwoAttributes
    /\ mem[0] = ByteRadix - 1
    /\ ~out.raised
    /\ Cardinality(out.value.entries) = 2

\* C22: after STORE_ICC_COLOR_PROFILE(offset, p) returns, read_profile at the
\* same offset returns exactly p, whatever the region held before the call.
C22_ProfileRoundTrip ==
    (op.writer = "STORE_ICC_COLOR_PROFILE" /\ ~out.raised)
        => ICC_PROFILE_read_profile(mem, op.offset, RegionSize)
                = Returned(op.input)

\* The last call was a method of a remote reader whose last range request
\* did not complete with status 206 and a payload.
FetchFailed ==
    /\ op.writer \in {"TILE_TABLE::validate_offset", "TILE_OFFSETS::size"}
    /\ ~response[op.input].fetched
\* The method reported an error: a failure result, or an exception.
ErrorReported ==
    IF op.writer = "TILE_OFFSETS::size"
    THEN out.raised
    ELSE "flag" \in DOMAIN out /\ And(out, IRIS_FAILURE)

\* C23: when the range request of a remote block reader fails (a status other
\* than 206, or no payload), for the header fetch as for the full-size fetch
\* of a variable-length block, the read reports an error and the response
\* cache of the reader stays empty.
C23_FailedFetchReported ==
    FetchFailed => (ErrorReported /\ response[op.input] = nullptr)

C23_SizeAfterFailedFetch ==
    /\ FetchFailed
    /\ op.writer = "TILE_OFFSETS::size"
    /\ Len(log) = 2
    /\ ~out.raised
    /\ "value" \in DOMAIN out

\* C24: for every field width and every value within it the big-endian host
\* stores the bytes the little-endian host stores, and for every byte
\* sequence it loads the value the little-endian host loads, which is the
\* value of the field's own 2, 3, 4, 5 or 8 bytes.
C24_EndianNeutral ==
    /\ op.writer = "STORE" => out.big = out.little
    /\ op.writer = "LOAD"
        => /\ out.big = out.little
           /\ out.little = LoadLE(mem, op.offset, op.input.width)

C24_FourthByteLoaded ==
    /\ op.writer = "LOAD"
    /\ op.input.width = 3
    /\ LOAD_U8(mem, op.offset + 3) # 0
    /\ out.big = LoadLE(mem, op.offset, 4)

\* C25: for the Image Bytes block that STORE_IMAGES_BYTES wrote,
\* IMAGE_BYTES::size returns header size + title size + image size: the
\* SIZE_IMAGES_BYTES of the stored CreateInfo, and the end of the image that
\* read_image_bytes computes, counted from the block offset.
C25_ImageBytesSizeAdditive ==
    (op.writer = "STORE_IMAGES_BYTES" /\ ~out.raised)
        => LET read == IMAGE_BYTES_read_image_bytes(mem, op.offset, RegionSize)
               TITLE == LOAD_U16(mem, op.offset + IMAGE_BYTES.TITLE_SIZE)
               BYTES == LOAD_U32(mem, op.offset + IMAGE_BYTES.IMAGE_SIZE)
           IN  /\ IMAGE_BYTES_size(mem, op.offset)
                    = IMAGE_BYTES.HEADER_SIZE + TITLE + BYTES
               /\ IMAGE_BYTES_size(mem, op.offset) = SIZE_IMAGES_BYTES(op.input)
               /\ ~read.raised
               /\ IMAGE_BYTES_size(mem, op.offset)
                    = read.value.offset + read.value.byteSize - op.offset

\* C26: on every region on which validate_file_structure returns
\* IRIS_SUCCESS, abstract_file_structure with the same size completes
\* without raising.
C26_ValidatedFilesAbstract ==
    LET validated == validate_file_structure(mem, RegionSize)
    IN  (/\ op.writer = "abstract_file_structure"
         /\ ~validated.terminated
         /\ validated.result.flag = IRIS_SUCCESS)
            => ~out.raised

C26_ValidatedFileAbstracted ==
    /\ op.writer = "abstract_file_structure"
    /\ ~validate_file_structure(mem, RegionSize).terminated
    /\ validate_file_structure(mem, RegionSize).result.flag = IRIS_SUCCESS
    /\ ~out.raised
    /\ Len(out.value) > 3

\* C27: validate_file_structure never raises: on every region it returns a
\* Result, and every structural problem, a stored extension version of 0
\* included, is reported through the flag of that Result.
C27_ValidateNeverRaises ==
    op.writer = "validate_file_structure"
        => /\ ~out.terminated
           /\ "flag" \in DOMAIN out.result
           /\ FILE_HEADER_extVersion(mem) = 0
                => out.result.flag # IRIS_SUCCESS

C27_VersionZeroValidated ==
    /\ op.writer = "validate_file_structure"
    /\ FILE_HEADER_extVersion(mem) = 0
    /\ FILE_HEADER_validate_full(mem, RegionSize).flag = IRIS_SUCCESS
    /\ out.terminated

\* HEADER_SIZE of the block a writer stores.
HeaderSizeOf(writer) ==
    CASE writer = "STORE_FILE_HEADER" -> FILE_HEADER.HEADER_SIZE
      [] writer = "STORE_TILE_TABLE" -> TILE_TABLE.HEADER_SIZE
      [] writer = "STORE_METADATA" -> METADATA.HEADER_SIZE
      [] writer = "STORE_ATTRIBUTES" -> ATTRIBUTES.HEADER_SIZE
      [] writer = "STORE_EXTENTS" -> LAYER_EXTENTS.HEADER_SIZE
      [] writer = "STORE_TILE_OFFSETS" -> TILE_OFFSETS.HEADER_SIZE
      [] writer = "STORE_ATTRIBUTES_SIZES" -> ATTRIBUTES_SIZES.HEADER_SIZE
      [] writer = "STORE_ATTRIBUTES_BYTES" -> ATTRIBUTES_BYTES.HEADER_SIZE
      [] writer = "STORE_IMAGES_ARRAY" -> IMAGE_ARRAY.HEADER_SIZE
      [] writer = "STORE_IMAGES_BYTES" -> IMAGE_BYTES.HEADER_SIZE
      [] writer = "STORE_ICC_COLOR_PROFILE" -> ICC_PROFILE.HEADER_SIZE
      [] writer = "STORE_ANNOTATION_ARRAY" -> ANNOTATIONS.HEADER_SIZE
      [] writer = "STORE_ANNOTATION_BYTES" -> ANNOTATION_BYTES.HEADER_SIZE
\* The bytes of [offset, offset + n).
RegionBytes(m, offset, n) == [i \in 0 .. n - 1 |-> LOAD_U8(m, offset + i)]

\* C28: after a successful STORE_* call the bytes of the header region
\* [offset, offset + HEADER_SIZE) are those that the same call leaves on any
\* other region on which it succeeds: they depend on the CreateInfo alone.
C28_HeaderDetermined ==
    (op.writer \in Writers /\ ~out.raised)
        => \A other \in Images :
            LET run == Call(other, op)
            IN  ~run.raised
                    => RegionBytes(run.mem, op.offset, HeaderSizeOf(op.writer))
                        = RegionBytes(mem, op.offset, HeaderSizeOf(op.writer))

\* The size of the block a writer call lays out: SIZE_* of its CreateInfo,
\* the header size for the blocks of fixed size.
SizeOf(c) ==
    CASE c.writer = "STORE_EXTENTS" -> SIZE_EXTENTS(c.input)
      [] c.writer = "STORE_TILE_OFFSETS" -> SIZE_TILE_OFFSETS(c.input)
      [] c.writer = "STORE_ATTRIBUTES_SIZES" -> SIZE_ATTRIBUTES_SIZES(c.input)
      [] c.writer = "STORE_ATTRIBUTES_BYTES" -> SIZE_ATTRIBUTES_BYTES(c.input)
      [] c.writer = "STORE_IMAGES_ARRAY" -> SIZE_IMAGES_ARRAY(c.input)
      [] c.writer = "STORE_IMAGES_BYTES" -> SIZE_IMAGES_BYTES(c.input)
      [] c.writer = "STORE_ICC_COLOR_PROFILE" ->
            SIZE_ICC_COLOR_PROFILE(c.input)
      [] c.writer = "STORE_ANNOTATION_ARRAY" -> SIZE_ANNOTATION_ARRAY(c.input)
      [] c.writer = "STORE_ANNOTATION_BYTES" -> SIZE_ANNOTATION_BYTES(c.input)
      [] OTHER -> HeaderSizeOf(c.writer)

\* The addresses of the region outside the block of call c.
OutsideBlock(c) ==
    {a \in RegionAddresses : a < c.offset \/ a >= c.offset + SizeOf(c)}

\* C29: a STORE_* call changes no byte outside [offset, offset + SIZE_*) of
\* the block it stores, and the annotation bytes it copies lie where
\* ANNOTATION_BYTES::read_bytes locates them.
C29_StoreFrame ==
    (op.writer \in Writers /\ ~out.raised)
        => /\ \A a \in OutsideBlock(op) : mem[a] = pre[a]
           /\ op.writer = "STORE_ANNOTATION_BYTES"
                => LET read == ANNOTATION_BYTES_read_bytes(mem, op.offset,
                                                           RegionSize)
                   IN  /\ ~read.raised
                       /\ read.value.byteSize = Len(op.input.data)
                       /\ \A i \in 1 .. Len(op.input.data) :
                            mem[read.value.offset + i - 1] = op.input.data[i]

C29_AnnotationBytesStored ==
    /\ op.writer = "STORE_ANNOTATION_BYTES"
    /\ ~out.raised
    /\ Len(op.input.data) > 0
    /\ \E a \in OutsideBlock(op) : mem[a] # pre[a]

\* The children a stored tile table names both pass their validate_full.
ChildrenValid(m, CI) ==
    /\ LAYER_EXTENTS_validate_full(m, CI.layerExtentsOffset, RegionSize).flag
            = IRIS_SUCCESS
    /\ TILE_OFFSETS_validate_full(m, CI.tilesOffset, RegionSize).flag
            = IRIS_SUCCESS

\* C30: a tile table that STORE_TILE_TABLE stores without raising, one of
\* pixel format UNDEFINED included, passes TILE_TABLE::validate_full when its
\* layer extents and tile offsets are valid, and a STORE_FILE_HEADER that
\* references it raises only because of the metadata.
C30_StoredTileTableValidates ==
    (/\ op.writer = "STORE_TILE_TABLE"
     /\ ~out.raised
     /\ ChildrenValid(mem, op.input))
        => /\ ~And(TILE_TABLE_validate_full(mem, op.offset, RegionSize),
                   IRIS_FAILURE)
           /\ \A CI \in HeaderInputs :
                (/\ CI.tileTableOffset = op.offset
                 /\ CI.fileSize = RegionSize
                 /\ STORE_FILE_HEADER(mem, CI).raised)
                    => And(METADATA_validate_full(mem, CI.metadataOffset,
                                                  CI.fileSize),
                           IRIS_FAILURE)

C30_UndefinedFormatStored ==
    /\ op.writer = "STORE_TILE_TABLE"
    /\ ~out.raised
    /\ op.input.format = Format.FORMAT_UNDEFINED
    /\ ChildrenValid(mem, op.input)
    /\ METADATA_validate_full(mem, MetadataAt, RegionSize).flag = IRIS_SUCCESS
    /\ STORE_FILE_HEADER(mem, HeaderCI(RegionSize, op.offset, MetadataAt)).raised

====
